---- MODULE Spec2Model ----
(***************************************************************************)
(* A model of umock (src/umock.py): the Mock call recorder, the patch      *)
(* context manager / decorator and patch_target, over a small object heap  *)
(* and module registry shaped like tests/a_package/a_module.py.            *)
(***************************************************************************)
EXTENDS Integers, Sequences, FiniteSets, TLC

\* ------------------------------------------------------------------ bounds
\* Objects that may be created on top of the fixture (mocks, children).
MaxNew == 3
\* Invocations of one mock since its construction.
MaxCalls == 3
\* Length of a sequence given as side_effect.
MaxSeqLen == 2
\* patch instances that may be constructed.
MaxPatch == 1
\* with-statements and wrapper calls in progress at once.
MaxDepth == 2
\* Direct calls of patch_target in one run.
MaxSteps == 3

\* ------------------------------------------------------------------ values
\* A Python value: a tagged record.  n is the payload of scalars and the
\* identity of referenced things, items the elements of a str/list/tuple.
V(tag, n, items) == [tag |-> tag, n |-> n, items |-> items]
None_ == V("None", 0, <<>>)
\* "no such key" in a __dict__ or in sys.modules (not a Python value)
Absent == V("absent", 0, <<>>)
IntV(i) == V("int", i, <<>>)
BoolV(b) == V("bool", IF b THEN 1 ELSE 0, <<>>)
StrV(s) == V("str", 0, s)
ListV(s) == V("list", 0, s)
TupleV(s) == V("tuple", 0, s)
ObjV(o) == V("obj", o, <<>>)
ExcType(k) == V("exctype", k, <<>>)
ExcInst(k) == V("exc", k, <<>>)
Fn(k) == V("fn", k, <<>>)
Iter(i) == V("iter", i, <<>>)
\* An iterable that is none of str, list, tuple, set, dict: range(...).
RangeV(s) == V("range", 0, s)
\* The StopIteration instance next() raises on an exhausted iterator.
StopIterationExc == V("StopIteration", 0, <<>>)

\* bool(v): None, 0, False and empty str/list/tuple are falsy; every object
\* of the model (Mock, module, class, function) defines neither __bool__ nor
\* __len__ and is truthy.
Truthy(v) ==
  CASE v.tag = "None" -> FALSE
    [] v.tag \in {"int", "bool"} -> v.n # 0
    [] v.tag \in {"str", "list", "tuple", "range"} -> Len(v.items) > 0
    [] OTHER -> TRUE

\* One (args, kwargs) pair of a call: positional values and the keyword
\* bindings as a set of <<name, value>>.
CallSig(args, kw) == [args |-> args, kwargs |-> kw]
CallSigs ==
  { CallSig(<<>>, {}),
    CallSig(<<IntV(1), IntV(2)>>, {<<"a", IntV(3)>>}) }

\* -------------------------------------------------------------------- heap
\* The module-level tuple of names Mock treats as plain data fields.
RESERVED_MOCK_ATTRIBUTES == {"side_effect", "return_value"}
UnderscoreNames == {"_mock_value", "_old"}

\* The objects of tests/a_package: the module, its class, the method of the
\* class, the module-level function, a second module that is importable but
\* not imported yet, and a replacement object a test passes to patch.
ModObj == 1
AClassObj == 2
AMethodObj == 3
AFunctionObj == 4
OtherModObj == 5
ReplacementObj == 6
\* The class a test gives as spec (attributes x and y), and an instance of it.
TestClassObj == 7
TestInstObj == 8
FixtureObjs ==
  {ModObj, AClassObj, AMethodObj, AFunctionObj, OtherModObj, ReplacementObj,
   TestClassObj, TestInstObj}
ObjIds == 1..(Cardinality(FixtureObjs) + MaxNew)

\* A target string, as its tokens: names, "." and ":".
ModPath == <<"pkg", ".", "mod">>
OtherPath == <<"pkg", ".", "other">>
NoModPath == <<"pkg", ".", "nomod">>

VARIABLES
  kind,          \* object -> "free" | "plain" | "instance" | "module" | "Mock" | "AsyncMock"
  instance_dict, \* object -> its __dict__ : attribute name -> value | Absent
  calls,         \* Mock -> self._calls, AsyncMock -> self._awaits
  spec,          \* Mock -> the names of self._spec, for the Mocks that have one
  iters,         \* iterator (named by the Mock whose __init__ made it) -> rest
  sys_modules,   \* sys.modules: module name -> registered object
  patches,       \* patch instance -> its fields
  stack,         \* the with-statements / wrapper calls in progress, innermost last
  last,          \* outcome of the operation just performed
  ctor,          \* the arguments the first Mock was constructed with
  total,         \* Mock -> invocations since construction
  hist,          \* Mock -> the invocations made since the last reset
  assigned,      \* the reserved names assigned on the first Mock after construction
  steps,         \* the number of direct patch_target calls made
  written,       \* name -> the value last assigned to it on the first Mock
  coros,         \* the coroutine objects created by calling an AsyncMock and not yet awaited
  twin           \* a second heap: that of the Mock run side by side with an AsyncMock

vars == <<kind, instance_dict, calls, spec, iters, sys_modules, patches, stack,
          last, ctor, total, hist, assigned, steps, written, coros, twin>>

\* The heap as one value, so that the methods below are functions on it.
Heap == [kind |-> kind, dict |-> instance_dict, calls |-> calls, spec |-> spec,
         iters |-> iters, mods |-> sys_modules]

SetHeap(H) ==
  /\ kind' = H.kind
  /\ instance_dict' = H.dict
  /\ calls' = H.calls
  /\ spec' = H.spec
  /\ iters' = H.iters
  /\ sys_modules' = H.mods

\* A dict: a function whose domain is the keys present.
EmptyDict == [a \in {} |-> Absent]
Put(d, k, v) == [x \in DOMAIN d \cup {k} |-> IF x = k THEN v ELSE d[x]]
\* d.get(k), Absent standing for the missing key
Get(d, k) == IF k \in DOMAIN d THEN d[k] ELSE Absent

\* The result of running a piece of code: the heap it leaves, and either the
\* value it returns (ok) or the error it raises (err, with the exception
\* object in val when the user supplied it).
Ret(H, v) == [H |-> H, ok |-> TRUE, val |-> v, err |-> ""]
Raise(H, e, v) == [H |-> H, ok |-> FALSE, val |-> v, err |-> e]

Free(H) == {o \in ObjIds : H.kind[o] = "free"}
\* id() of the next object Python creates.
NewId(H) == CHOOSE o \in Free(H) : \A p \in Free(H) : o <= p

\* ------------------------------------------------------------- attributes
\* object.__setattr__: neither Mock nor the fixture's objects define
\* __setattr__, so an assignment stores into the instance's __dict__.
\* setattr that refuses, silently, a name outside the object's spec.
PySetAttr_spec_gated(H, o, name, v) ==
  IF /\ o \in DOMAIN H.spec
     /\ name \notin H.spec[o]
     /\ name \notin UnderscoreNames \cup RESERVED_MOCK_ATTRIBUTES
  THEN H
  ELSE [H EXCEPT !.dict[o] = Put(@, name, v)]

PySetAttr(H, o, name, v) ==
  [H EXCEPT !.dict[o] = Put(@, name, v)]

\* Mock(): a new object, then __init__ with every argument left at its
\* default, which only runs reset_mock().
BareMock(H) ==
  LET o == NewId(H) IN
  [H EXCEPT !.kind[o] = "Mock", !.dict[o] = EmptyDict,
            !.calls = Put(@, o, <<>>)]

\* __getattr__ handing out a new Mock without keeping it.
Mock__getattr__forgets_child(H, self, name) ==
  IF name \in UnderscoreNames \/ name \in RESERVED_MOCK_ATTRIBUTES
  THEN Ret(H, IF name \in DOMAIN H.dict[self] THEN H.dict[self][name] ELSE None_)
  ELSE IF name \in DOMAIN H.dict[self]
  THEN Ret(H, H.dict[self][name])
  ELSE IF self \in DOMAIN H.spec /\ name \notin H.spec[self]
  THEN Raise(H, "AttributeError", None_)
  ELSE Ret(BareMock(H), ObjV(NewId(H)))

\* __getattr__ that does not look at self._spec.
Mock__getattr__ignores_spec(H, self, name) ==
  IF name \in UnderscoreNames \/ name \in RESERVED_MOCK_ATTRIBUTES
  THEN Ret(H, IF name \in DOMAIN H.dict[self] THEN H.dict[self][name] ELSE None_)
  ELSE IF name \in DOMAIN H.dict[self]
  THEN Ret(H, H.dict[self][name])
  ELSE IF Free(H) = {} THEN Raise(H, "MemoryError", None_)
  ELSE Ret(PySetAttr(BareMock(H), self, name, ObjV(NewId(H))), ObjV(NewId(H)))

\* Mock.__getattr__(self, name): Python calls it only when the normal
\* lookup has failed.
Mock__getattr__(H, self, name) ==
  IF name \in UnderscoreNames \/ name \in RESERVED_MOCK_ATTRIBUTES
  THEN \* self.__dict__.get(name)
       Ret(H, IF name \in DOMAIN H.dict[self] THEN H.dict[self][name] ELSE None_)
  ELSE IF name \in DOMAIN H.dict[self]
  THEN Ret(H, H.dict[self][name])
  ELSE IF self \in DOMAIN H.spec /\ name \notin H.spec[self]
  THEN Raise(H, "AttributeError", None_)
  ELSE LET new_mock == NewId(H) IN
       Ret(PySetAttr(BareMock(H), self, name, ObjV(new_mock)), ObjV(new_mock))

\* AsyncMock(): as Mock(), the log being self._awaits.
BareAsyncMock(H) ==
  LET o == NewId(H) IN
  [H EXCEPT !.kind[o] = "AsyncMock", !.dict[o] = EmptyDict,
            !.calls = Put(@, o, <<>>)]

\* AsyncMock.__getattr__ that does not look at self._spec.
AsyncMock__getattr__ignores_spec(H, self, name) ==
  IF name \in UnderscoreNames \/ name \in RESERVED_MOCK_ATTRIBUTES
  THEN Ret(H, IF name \in DOMAIN H.dict[self] THEN H.dict[self][name] ELSE None_)
  ELSE IF name \in DOMAIN H.dict[self]
  THEN Ret(H, H.dict[self][name])
  ELSE IF Free(H) = {} THEN Raise(H, "MemoryError", None_)
  ELSE Ret(PySetAttr(BareAsyncMock(H), self, name, ObjV(NewId(H))), ObjV(NewId(H)))

\* AsyncMock.__getattr__(self, name)
AsyncMock__getattr__(H, self, name) ==
  IF name \in UnderscoreNames \/ name \in RESERVED_MOCK_ATTRIBUTES
  THEN Ret(H, IF name \in DOMAIN H.dict[self] THEN H.dict[self][name] ELSE None_)
  ELSE IF name \in DOMAIN H.dict[self]
  THEN Ret(H, H.dict[self][name])
  ELSE IF self \in DOMAIN H.spec /\ name \notin H.spec[self]
  THEN Raise(H, "AttributeError", None_)
  ELSE LET new_mock == NewId(H) IN
       Ret(PySetAttr(BareAsyncMock(H), self, name, ObjV(new_mock)), ObjV(new_mock))

\* getattr that applies the spec before it looks into the instance's __dict__.
PyGetAttr_spec_first(H, v, name) ==
  IF v.tag # "obj" THEN Raise(H, "AttributeError", None_)
  ELSE IF /\ v.n \in DOMAIN H.spec
          /\ name \notin H.spec[v.n]
          /\ name \notin UnderscoreNames \cup RESERVED_MOCK_ATTRIBUTES
  THEN Raise(H, "AttributeError", None_)
  ELSE IF name \in DOMAIN H.dict[v.n] THEN Ret(H, H.dict[v.n][name])
  ELSE IF H.kind[v.n] = "Mock" THEN Mock__getattr__(H, v.n, name)
  ELSE IF H.kind[v.n] = "AsyncMock" THEN AsyncMock__getattr__(H, v.n, name)
  ELSE Raise(H, "AttributeError", None_)

\* getattr(o, name): the instance's __dict__ first; a Mock then falls back
\* to __getattr__, any other object raises AttributeError.  A value that is
\* not an object of the heap (an int, None, ...) has none of the names used.
PyGetAttr(H, v, name) ==
  IF v.tag # "obj" THEN Raise(H, "AttributeError", None_)
  ELSE IF name \in DOMAIN H.dict[v.n] THEN Ret(H, H.dict[v.n][name])
  ELSE IF H.kind[v.n] = "Mock" THEN Mock__getattr__(H, v.n, name)
  ELSE IF H.kind[v.n] = "AsyncMock" THEN AsyncMock__getattr__(H, v.n, name)
  ELSE Raise(H, "AttributeError", None_)

\* hasattr(o, name): getattr did not raise.
PyHasAttr(H, v, name) == PyGetAttr(H, v, name).ok

\* Whether getattr(o, name) would have to create an object.
NeedsNew(H, v, name) ==
  /\ v.tag = "obj"
  /\ H.kind[v.n] \in {"Mock", "AsyncMock"}
  /\ name \notin DOMAIN H.dict[v.n]
  /\ name \notin UnderscoreNames \cup RESERVED_MOCK_ATTRIBUTES
  /\ ~(v.n \in DOMAIN H.spec /\ name \notin H.spec[v.n])

\* --------------------------------------------------------------------- Mock
\* reset_mock that forgets to clear the log.
reset_mock_keeps_log(H, self) ==
  IF self \in DOMAIN H.calls THEN H ELSE [H EXCEPT !.calls = Put(@, self, <<>>)]

\* reset_mock that also empties the instance's other attributes.
reset_mock_clears_dict(H, self) ==
  [H EXCEPT !.calls = Put(@, self, <<>>), !.dict[self] = EmptyDict]

\* reset_mock that also removes the configured side_effect.
reset_mock_drops_side_effect(H, self) ==
  [H EXCEPT !.calls = Put(@, self, <<>>),
            !.dict[self] = [n \in DOMAIN @ \ {"side_effect"} |-> @[n]]]

\* Mock.reset_mock(self)
reset_mock(H, self) ==
  [H EXCEPT !.calls = Put(@, self, <<>>)]

\* The loop of __init__ over self._spec: setattr(self, name, Mock()).
RECURSIVE SpecChildren(_, _, _)
SpecChildren(H, self, names) ==
  IF names = <<>> THEN H
  ELSE LET child == NewId(H) IN
       SpecChildren(PySetAttr(BareMock(H), self, Head(names), ObjV(child)),
                    self, Tail(names))

\* The loop of __init__ over kwargs.items(): setattr(self, key, value).
RECURSIVE SetKwargs(_, _, _)
SetKwargs(H, self, kwargs) ==
  IF kwargs = {} THEN H
  ELSE LET kv == CHOOSE x \in kwargs : TRUE IN
       SetKwargs(PySetAttr(H, self, kv[1], kv[2]), self, kwargs \ {kv})

\* iter(x) handing the elements out last first.
ItemsOf_reversed(v) ==
  [i \in 1..Len(v.items) |-> IntV(v.items[Len(v.items) + 1 - i])]

\* What iter(x) yields for a str, list or tuple x.
ItemsOf(v) ==
  [i \in 1..Len(v.items) |->
     IF v.tag = "str" THEN StrV(<<v.items[i]>>) ELSE IntV(v.items[i])]

\* The spec argument: None, or a list of names.
SpecNone == [form |-> "none", names |-> <<>>]
SpecList(names) == [form |-> "list", names |-> names]
SpecTruthy(sp) == sp.form # "none" /\ ~(sp.form = "list" /\ sp.names = <<>>)
Range(f) == {f[i] : i \in DOMAIN f}

\* Mock(spec, side_effect, return_value, **kwargs): object creation followed
\* by Mock.__init__.  The object is the one NewId(H) names.
\* __init__ that takes every argument other than None as supplied.
Mock__init__keeps_falsy(H, sp, side_effect, return_value, kwargs) ==
  LET self == NewId(H)
      H0 == [H EXCEPT !.kind[self] = "Mock", !.dict[self] = EmptyDict]
      H1 == IF sp.form # "none"
            THEN SpecChildren([H0 EXCEPT !.spec = Put(@, self, Range(sp.names))],
                              self, sp.names)
            ELSE H0
      H2 == IF return_value # None_
            THEN PySetAttr(H1, self, "return_value", return_value)
            ELSE H1
      H3 == IF side_effect # None_
            THEN IF side_effect.tag \in {"str", "list", "tuple"}
                 THEN PySetAttr([H2 EXCEPT !.iters = Put(@, self, ItemsOf(side_effect))],
                                self, "side_effect", Iter(self))
                 ELSE PySetAttr(H2, self, "side_effect", side_effect)
            ELSE H2
  IN SetKwargs(reset_mock(H3, self), self, kwargs)

Mock__init__(H, sp, side_effect, return_value, kwargs) ==
  LET self == NewId(H)
      H0 == [H EXCEPT !.kind[self] = "Mock", !.dict[self] = EmptyDict]
      H1 == IF SpecTruthy(sp)
            THEN SpecChildren([H0 EXCEPT !.spec = Put(@, self, Range(sp.names))],
                              self, sp.names)
            ELSE H0
      H2 == IF Truthy(return_value)
            THEN PySetAttr(H1, self, "return_value", return_value)
            ELSE H1
      H3 == IF Truthy(side_effect)
            THEN IF side_effect.tag \in {"str", "list", "tuple"}
                 THEN PySetAttr([H2 EXCEPT !.iters = Put(@, self, ItemsOf(side_effect))],
                                self, "side_effect", Iter(self))
                 ELSE PySetAttr(H2, self, "side_effect", side_effect)
            ELSE H2
  IN SetKwargs(reset_mock(H3, self), self, kwargs)

\* The objects Mock(spec, ...) creates: itself and one Mock per spec name.
InitNeeds(sp) == 1 + (IF SpecTruthy(sp) THEN Len(sp.names) ELSE 0)

\* A callable given as side_effect: the model's functions return a value
\* computed from their arguments.
FnApply(k, sig) == IntV(k + Len(sig.args))
\* The callable numbered 0 raises instead of returning.
FnRaises(k) == k = 0
FnError == ExcInst(2)
\* self.side_effect(*args, **kwargs)
FnCall(H, k, sig) ==
  IF FnRaises(k) THEN Raise(H, "raised", FnError) ELSE Ret(H, FnApply(k, sig))
\* Raising the class as if it were a given instance.
NewExc_given(k) == ExcInst(k)

\* The instance a raise of the exception class k creates.
NewExc(k) == V("excnew", k, <<>>)

\* __call__ consulting return_value before side_effect.
Mock__call__return_value_first(H, self, sig) ==
  LET H1 == [H EXCEPT !.calls[self] = Append(@, sig)]
      se == Get(H1.dict[self], "side_effect")
  IN
  IF "return_value" \in DOMAIN H1.dict[self]
  THEN Ret(H1, H1.dict[self]["return_value"])
  ELSE IF se = Absent THEN Ret(H1, None_)
  ELSE IF se.tag = "exc" THEN Raise(H1, "raised", se)
  ELSE IF se.tag = "iter" /\ H1.iters[se.n] # <<>>
  THEN Ret([H1 EXCEPT !.iters[se.n] = Tail(@)], Head(H1.iters[se.n]))
  ELSE IF se.tag = "iter" THEN Raise(H1, "StopIteration", None_)
  ELSE IF se.tag = "fn" THEN FnCall(H1, se.n, sig)
  ELSE Raise(H1, "TypeError", None_)

\* __call__ that also records the invocation on the mocks that hold self as
\* an attribute.
Mock__call__propagates(H, self, sig) ==
  LET Parent(o) == \E n \in DOMAIN H.dict[o] : H.dict[o][n] = ObjV(self)
      H1 == [H EXCEPT !.calls =
               [o \in DOMAIN H.calls |->
                  IF o = self \/ Parent(o) THEN Append(H.calls[o], sig)
                  ELSE H.calls[o]]]
      se == Get(H1.dict[self], "side_effect")
  IN
  IF "side_effect" \in DOMAIN H1.dict[self]
  THEN IF se.tag = "exctype" THEN Raise(H1, "raised", NewExc(se.n))
       ELSE IF se.tag = "exc" THEN Raise(H1, "raised", se)
       ELSE IF se.tag = "iter"
       THEN IF H1.iters[se.n] = <<>>
            THEN Raise(H1, "StopIteration", None_)
            ELSE Ret([H1 EXCEPT !.iters[se.n] = Tail(@)], Head(H1.iters[se.n]))
       ELSE IF se.tag = "fn" THEN FnCall(H1, se.n, sig)
       ELSE Raise(H1, "TypeError", None_)
  ELSE Ret(H1, Get(H1.dict[self], "return_value"))

\* __call__ that records the invocation only once it has a result to return.
Mock__call__records_on_return(H, self, sig) ==
  LET se == Get(H.dict[self], "side_effect")
      H1 == [H EXCEPT !.calls[self] = Append(@, sig)]
  IN
  IF "side_effect" \in DOMAIN H.dict[self]
  THEN IF se.tag = "exctype" THEN Raise(H, "raised", NewExc(se.n))
       ELSE IF se.tag = "exc" THEN Raise(H, "raised", se)
       ELSE IF se.tag = "iter"
       THEN IF H.iters[se.n] = <<>>
            THEN Raise(H, "StopIteration", None_)
            ELSE Ret([H1 EXCEPT !.iters[se.n] = Tail(@)], Head(H.iters[se.n]))
       ELSE IF se.tag = "fn"
       THEN IF FnRaises(se.n) THEN FnCall(H, se.n, sig) ELSE FnCall(H1, se.n, sig)
       ELSE Raise(H, "TypeError", None_)
  ELSE Ret(H1, Get(H1.dict[self], "return_value"))

\* Mock.__call__(self, *args, **kwargs), sig = (args, kwargs).
Mock__call__(H, self, sig) ==
  LET H1 == [H EXCEPT !.calls[self] = Append(@, sig)]
      se == Get(H1.dict[self], "side_effect")
  IN
  IF "side_effect" \in DOMAIN H1.dict[self]
  THEN \* self.side_effect is the entry of self.__dict__
       IF se.tag = "exctype" THEN Raise(H1, "raised", NewExc(se.n))
       ELSE IF se.tag = "exc" THEN Raise(H1, "raised", se)
       ELSE IF se.tag = "iter"
       THEN \* next(self.side_effect)
            IF H1.iters[se.n] = <<>>
            THEN Raise(H1, "StopIteration", None_)
            ELSE Ret([H1 EXCEPT !.iters[se.n] = Tail(@)], Head(H1.iters[se.n]))
       ELSE IF se.tag = "fn" THEN FnCall(H1, se.n, sig)
       ELSE Raise(H1, "TypeError", None_)
  ELSE IF PyHasAttr(H1, ObjV(self), "return_value")
  THEN PyGetAttr(H1, ObjV(self), "return_value")
  ELSE IF PyHasAttr(H1, ObjV(self), "_mock_value")
  THEN PyGetAttr(H1, ObjV(self), "_mock_value")
  ELSE LET new_mock == NewId(H1) IN
       Ret(PySetAttr(BareMock(H1), self, "_mock_value", ObjV(new_mock)),
           ObjV(new_mock))

\* AsyncMock(spec, side_effect, return_value, **kwargs): object creation
\* followed by AsyncMock.__init__; the children of the spec are Mocks.
\* __init__ giving the spec names AsyncMock children.
AsyncMock__init__async_children(H, sp, side_effect, return_value, kwargs) ==
  LET self == NewId(H)
      H0 == [H EXCEPT !.kind[self] = "AsyncMock", !.dict[self] = EmptyDict]
      S == IF SpecTruthy(sp)
           THEN SpecChildren([H0 EXCEPT !.spec = Put(@, self, Range(sp.names))],
                             self, sp.names)
           ELSE H0
      H1 == [S EXCEPT !.kind = [o \in DOMAIN S.kind |->
                                  IF H0.kind[o] = "free" /\ S.kind[o] = "Mock"
                                  THEN "AsyncMock" ELSE S.kind[o]]]
      H2 == IF Truthy(return_value)
            THEN PySetAttr(H1, self, "return_value", return_value)
            ELSE H1
      H3 == IF Truthy(side_effect)
            THEN IF side_effect.tag \in {"str", "list", "tuple"}
                 THEN PySetAttr([H2 EXCEPT !.iters = Put(@, self, ItemsOf(side_effect))],
                                self, "side_effect", Iter(self))
                 ELSE PySetAttr(H2, self, "side_effect", side_effect)
            ELSE H2
  IN SetKwargs(reset_mock(H3, self), self, kwargs)

AsyncMock__init__(H, sp, side_effect, return_value, kwargs) ==
  LET self == NewId(H)
      H0 == [H EXCEPT !.kind[self] = "AsyncMock", !.dict[self] = EmptyDict]
      H1 == IF SpecTruthy(sp)
            THEN SpecChildren([H0 EXCEPT !.spec = Put(@, self, Range(sp.names))],
                              self, sp.names)
            ELSE H0
      H2 == IF Truthy(return_value)
            THEN PySetAttr(H1, self, "return_value", return_value)
            ELSE H1
      H3 == IF Truthy(side_effect)
            THEN IF side_effect.tag \in {"str", "list", "tuple"}
                 THEN PySetAttr([H2 EXCEPT !.iters = Put(@, self, ItemsOf(side_effect))],
                                self, "side_effect", Iter(self))
                 ELSE PySetAttr(H2, self, "side_effect", side_effect)
            ELSE H2
  IN SetKwargs(reset_mock(H3, self), self, kwargs)

\* A coroutine that lets the StopIteration of its body through.
Await_unwrapped(r) == r

\* await of a coroutine whose body ended as r: a StopIteration that leaves
\* the body of an "async def" reaches the awaiter as a RuntimeError whose
\* __cause__ (val) is that StopIteration; anything else passes through.
Await(r) ==
  IF ~r.ok /\ r.err = "StopIteration"
  THEN Raise(r.H, "RuntimeError", StopIterationExc)
  ELSE r

\* The body of __call__ with the append moved behind the computation of the
\* result.
AsyncMock__call__body_records_on_return(H, self, sig) ==
  LET se == Get(H.dict[self], "side_effect")
      H1 == [H EXCEPT !.calls[self] = Append(@, sig)]
  IN
  IF "side_effect" \in DOMAIN H.dict[self]
  THEN IF se.tag = "exctype" THEN Raise(H, "raised", NewExc(se.n))
       ELSE IF se.tag = "exc" THEN Raise(H, "raised", se)
       ELSE IF se.tag = "iter"
       THEN IF H.iters[se.n] = <<>>
            THEN Raise(H, "StopIteration", None_)
            ELSE Ret([H1 EXCEPT !.iters[se.n] = Tail(@)], Head(H.iters[se.n]))
       ELSE IF se.tag = "fn"
       THEN IF FnRaises(se.n) THEN FnCall(H, se.n, sig) ELSE FnCall(H1, se.n, sig)
       ELSE Raise(H, "TypeError", None_)
  ELSE Ret(H1, Get(H1.dict[self], "return_value"))

\* The body of AsyncMock.__call__(self, *args, **kwargs).
AsyncMock__call__body(H, self, sig) ==
  LET H1 == [H EXCEPT !.calls[self] = Append(@, sig)]
      se == Get(H1.dict[self], "side_effect")
  IN
  IF "side_effect" \in DOMAIN H1.dict[self]
  THEN IF se.tag = "exctype" THEN Raise(H1, "raised", NewExc(se.n))
       ELSE IF se.tag = "exc" THEN Raise(H1, "raised", se)
       ELSE IF se.tag = "iter"
       THEN IF H1.iters[se.n] = <<>>
            THEN Raise(H1, "StopIteration", None_)
            ELSE Ret([H1 EXCEPT !.iters[se.n] = Tail(@)], Head(H1.iters[se.n]))
       ELSE IF se.tag = "fn" THEN FnCall(H1, se.n, sig)
       ELSE Raise(H1, "TypeError", None_)
  ELSE IF PyHasAttr(H1, ObjV(self), "return_value")
  THEN PyGetAttr(H1, ObjV(self), "return_value")
  ELSE IF PyHasAttr(H1, ObjV(self), "_mock_value")
  THEN PyGetAttr(H1, ObjV(self), "_mock_value")
  ELSE LET new_mock == NewId(H1) IN
       Ret(PySetAttr(BareAsyncMock(H1), self, "_mock_value", ObjV(new_mock)),
           ObjV(new_mock))

\* await self(*args, **kwargs) on an AsyncMock
AsyncMock__call__(H, self, sig) == Await(AsyncMock__call__body(H, self, sig))

\* mock.__class__: __init__ stores nothing under that name, so it is the
\* class the object was created from.
Mock__class__(H, self) == H.kind[self]

\* type(obj).__name__ of the instance given as spec.
TestClassName == "TestClass"

\* A callable value: a function, a class, a method or a mock.
Callable(H, v) ==
  \/ v.tag \in {"fn", "exctype"}
  \/ v.tag = "obj" /\ H.kind[v.n] \in {"plain", "Mock", "AsyncMock"}

\* dir(o) without its double-underscore names, in dir's order: the names
\* of the object's own attributes and of its class's.
DirOrder == <<"AClass", "a_function", "a_method", "x", "y">>
ClassOf(o) == IF o = TestInstObj THEN TestClassObj ELSE o
AttrsOf(H, o) ==
  [n \in DOMAIN H.dict[o] \cup DOMAIN H.dict[ClassOf(o)] |->
     IF n \in DOMAIN H.dict[o] THEN H.dict[o][n] ELSE H.dict[ClassOf(o)][n]]
dir(H, o) ==
  LET Has(n) == n \in DOMAIN AttrsOf(H, o) IN SelectSeq(DirOrder, Has)

\* The spec argument given as an object (form "class" or "instance"): the
\* names __init__ keeps of dir(spec), those that are neither callable nor
\* awaitable (none of the model's plain values is awaitable).
SpecNames(H, o) ==
  LET Keep(n) == ~Callable(H, AttrsOf(H, o)[n]) IN SelectSeq(dir(H, o), Keep)
SpecObject(form, H, o) == [form |-> form, names |-> SpecNames(H, o)]

\* call_args answering with the first call instead of the last.
call_args_first(H, self) ==
  IF Len(H.calls[self]) # 0
  THEN [isNone |-> FALSE, sig |-> H.calls[self][1]]
  ELSE [isNone |-> TRUE, sig |-> CallSig(<<>>, {})]

\* Mock.call_count, Mock.call_args, Mock.call_args_list
call_count(H, self) == Len(H.calls[self])
\* call_args returns None (isNone) when the implicit return is reached.
call_args(H, self) ==
  IF call_count(H, self) # 0
  THEN [isNone |-> FALSE, sig |-> H.calls[self][Len(H.calls[self])]]
  ELSE [isNone |-> TRUE, sig |-> CallSig(<<>>, {})]
call_args_list(H, self) == H.calls[self]
\* Mock.called
called(H, self) == call_count(H, self) > 0

\* A property read as a step: the value it evaluates to.  call_args is a
\* ((args), {kwargs}) pair or None, call_args_list the list self._calls.
ReadProperty(H, self, name) ==
  CASE name = "call_count" -> Ret(H, IntV(call_count(H, self)))
    [] name = "called" -> Ret(H, BoolV(called(H, self)))
    [] name = "call_args" ->
         Ret(H, IF call_args(H, self).isNone THEN None_
                ELSE V("call", 0, <<call_args(H, self).sig>>))
    [] name = "call_args_list" -> Ret(H, V("calls", 0, call_args_list(H, self)))

\* assert <condition>, <message>
PyAssert(H, condition) ==
  IF condition THEN Ret(H, None_) ELSE Raise(H, "AssertionError", None_)

\* Mock.assert_called(self)
assert_called(H, self) == PyAssert(H, call_count(H, self) > 0)

\* Mock.assert_called_once(self)
assert_called_once(H, self) == PyAssert(H, call_count(H, self) = 1)

\* assert_called_with without the leading self.assert_called(): indexing
\* the empty list raises IndexError.
assert_called_with_unguarded(H, self, sig) ==
  IF H.calls[self] = <<>> THEN Raise(H, "IndexError", None_)
  ELSE PyAssert(H, sig = H.calls[self][Len(H.calls[self])])

\* Mock.assert_called_with(self, *args, **kwargs)
assert_called_with(H, self, sig) ==
  LET r == assert_called(H, self) IN
  IF ~r.ok THEN r
  ELSE PyAssert(r.H, sig = r.H.calls[self][Len(r.H.calls[self])])

\* Mock.assert_called_once_with(self, *args, **kwargs)
assert_called_once_with(H, self, sig) ==
  LET r == assert_called_once(H, self) IN
  IF ~r.ok THEN r ELSE assert_called_with(r.H, self, sig)

\* assert_any_call that leaves the log empty behind it.
assert_any_call_clears(H, self, sig) ==
  PyAssert([H EXCEPT !.calls[self] = <<>>],
           \E i \in 1..Len(H.calls[self]) : H.calls[self][i] = sig)

\* Mock.assert_any_call(self, *args, **kwargs): (args, kwargs) in self._calls
assert_any_call(H, self, sig) ==
  PyAssert(H, \E i \in 1..Len(H.calls[self]) : H.calls[self][i] = sig)

\* assert_has_calls whose ordered branch accepts the expected run at any
\* offset of the log.
assert_has_calls_anywhere(H, self, expected, any_order) ==
  LET log == H.calls[self] IN
  IF ~(Len(expected) <= Len(log)) THEN Raise(H, "AssertionError", None_)
  ELSE IF any_order
  THEN PyAssert(H, \A i \in 1..Len(expected) :
                     \E j \in 1..Len(log) : expected[i] = log[j])
  ELSE PyAssert(H, \E k \in 0..(Len(log) - Len(expected)) :
                     \A i \in 1..Len(expected) : log[k + i] = expected[i])

\* assert_has_calls whose any_order branch wants each expected entry as
\* often in the log as it is expected.
assert_has_calls_counted(H, self, expected, any_order) ==
  LET log == H.calls[self]
      Count(q, x) == Cardinality({i \in 1..Len(q) : q[i] = x})
  IN
  IF ~(Len(expected) <= Len(log)) THEN Raise(H, "AssertionError", None_)
  ELSE IF any_order
  THEN PyAssert(H, \A i \in 1..Len(expected) :
                     Count(expected, expected[i]) <= Count(log, expected[i]))
  ELSE PyAssert(H, \A i \in 1..Len(expected) : log[i] = expected[i])

\* Mock.assert_has_calls(self, calls, any_order=False): the asserts of the
\* loops, the first failing one raising.
assert_has_calls(H, self, expected, any_order) ==
  LET log == H.calls[self] IN
  IF ~(Len(expected) <= Len(log)) THEN Raise(H, "AssertionError", None_)
  ELSE IF any_order
  THEN PyAssert(H, \A i \in 1..Len(expected) :
                     \E j \in 1..Len(log) : expected[i] = log[j])
  ELSE PyAssert(H, \A i \in 1..Len(expected) : log[i] = expected[i])

\* Mock.assert_never_called(self)
assert_never_called(H, self) == PyAssert(H, call_count(H, self) = 0)

\* ------------------------------------------------------------- the fixture
\* tests/a_package/a_module.py after "import tests.a_package.a_module", and
\* the replacement of tests/test_patch.py: Mock(return_value=42).
FixtureKind ==
  [o \in ObjIds |->
     IF o \in {ModObj, OtherModObj} THEN "module"
     ELSE IF o \in {AClassObj, AMethodObj, AFunctionObj, TestClassObj} THEN "plain"
     ELSE IF o = TestInstObj THEN "instance"
     ELSE IF o = ReplacementObj THEN "Mock"
     ELSE "free"]

FixtureDict ==
  [o \in ObjIds |->
     IF o = ModObj
     THEN [a_function |-> ObjV(AFunctionObj), AClass |-> ObjV(AClassObj)]
     ELSE IF o = AClassObj THEN [a_method |-> ObjV(AMethodObj)]
     ELSE IF o = ReplacementObj THEN [return_value |-> IntV(42)]
     ELSE IF o = TestClassObj THEN [x |-> IntV(1), y |-> IntV(2)]
     ELSE EmptyDict]

FixtureHeap ==
  [kind |-> FixtureKind,
   dict |-> FixtureDict,
   calls |-> [o \in {ReplacementObj} |-> <<>>],
   spec |-> EmptyDict,
   iters |-> EmptyDict,
   mods |-> [m \in {ModPath} |-> ObjV(ModObj)]]

\* The modules the host's import can load: name -> the module object.
Importable == [m \in {ModPath, OtherPath} |->
                 IF m = ModPath THEN ObjV(ModObj) ELSE ObjV(OtherModObj)]

\* The first object created on top of the fixture.
RootMock == Cardinality(FixtureObjs) + 1

\* ------------------------------------------------- the record of one step
NoSig == CallSig(<<>>, {})
\* op on object / patch instance self, with the attribute name or the call
\* it was given, and how it ended; for the patch operations also the target,
\* what the target was bound to before, the replacement given, the form
\* ("with" | "decorator") and whether the guarded body raised; for
\* assert_has_calls the calls expected and any_order; and, where the same
\* operation is also applied to a second mock, how that one ended.
Step(op, self, name, sig, r) ==
  [op |-> op, self |-> self, name |-> name, sig |-> sig,
   ok |-> r.ok, val |-> r.val, err |-> r.err,
   target |-> <<>>, before |-> Absent, given |-> Absent, form |-> "",
   body_raised |-> FALSE, expected |-> <<>>, any_order |-> FALSE,
   twin |-> [ok |-> TRUE, val |-> None_, err |-> ""]]
NoStep == Step("", 0, "", NoSig, [ok |-> TRUE, val |-> None_, err |-> ""])

NoCtor == [spec |-> SpecNone, side_effect |-> None_, return_value |-> None_]

\* ---------------------------------------------------- Mock: specification
RECURSIVE SeqsUpTo(_)
SeqsUpTo(n) ==
  IF n = 0 THEN {<<>>}
  ELSE LET S == SeqsUpTo(n - 1) IN
       S \cup {Append(q, x) : q \in {r \in S : Len(r) = n - 1}, x \in {1, 2}}

SideEffectArgs ==
  {None_, ExcInst(1), ExcType(1), Fn(0), Fn(1), IntV(1), RangeV(<<1>>)}
    \cup {ListV(q) : q \in SeqsUpTo(MaxSeqLen)}
ReturnValueArgs == {None_, IntV(0), IntV(42)}
AssignValues == {None_, IntV(0), IntV(7)}

Mocks == {o \in ObjIds \ FixtureObjs : kind[o] = "Mock"}
TotalCalls == LET RECURSIVE Sum(_)
                  Sum(S) == IF S = {} THEN 0
                            ELSE LET o == CHOOSE x \in S : TRUE
                                 IN total[o] + Sum(S \ {o})
              IN Sum(DOMAIN total)
Total(m) == IF m \in DOMAIN total THEN total[m] ELSE 0
Hist(m) == IF m \in DOMAIN hist THEN hist[m] ELSE <<>>

InitMock ==
  \E sp \in {SpecNone}, se \in SideEffectArgs, rv \in ReturnValueArgs :
    LET H == Mock__init__(FixtureHeap, sp, se, rv, {}) IN
    /\ kind = H.kind
    /\ instance_dict = H.dict
    /\ calls = H.calls
    /\ spec = H.spec
    /\ iters = H.iters
    /\ sys_modules = H.mods
    /\ ctor = [spec |-> sp, side_effect |-> se, return_value |-> rv]
    /\ patches = <<>>
    /\ stack = <<>>
    /\ last = NoStep
    /\ total = Put(EmptyDict, RootMock, 0)
    /\ hist = Put(EmptyDict, RootMock, <<>>)
    /\ assigned = {}
  /\ steps = 0
  /\ written = EmptyDict
  /\ coros = <<>>
  /\ twin = FixtureHeap

\* m(*args, **kwargs)
Call(m, sig) ==
  /\ TotalCalls < MaxCalls
  /\ LET r == Mock__call__(Heap, m, sig) IN
     /\ SetHeap(r.H)
     /\ last' = Step("call", m, "", sig, r)
  /\ total' = Put(total, m, Total(m) + 1)
  /\ hist' = Put(hist, m, Append(Hist(m), sig))
  /\ UNCHANGED <<patches, stack, ctor, assigned, steps, written, coros, twin>>

\* m.reset_mock()
ResetMock(m) ==
  /\ SetHeap(reset_mock(Heap, m))
  /\ last' = Step("reset_mock", m, "", NoSig, Ret(Heap, None_))
  /\ hist' = Put(hist, m, <<>>)
  /\ UNCHANGED <<patches, stack, ctor, total, assigned, steps, written, coros, twin>>

\* m.name
GetAttr(m, name) ==
  /\ NeedsNew(Heap, ObjV(m), name) => Free(Heap) # {}
  /\ LET r == PyGetAttr(Heap, ObjV(m), name) IN
     /\ SetHeap(r.H)
     /\ last' = Step("getattr", m, name, NoSig, r)
  /\ UNCHANGED <<patches, stack, ctor, total, hist, assigned, steps, written, coros, twin>>

\* m.name = v
SetAttr(m, name, v) ==
  /\ SetHeap(PySetAttr(Heap, m, name, v))
  /\ last' = Step("setattr", m, name, NoSig, Ret(Heap, v))
  /\ assigned' = IF m = RootMock THEN assigned \cup {name} ELSE assigned
  /\ written' = IF m = RootMock THEN Put(written, name, v) ELSE written
  /\ UNCHANGED <<patches, stack, ctor, total, hist, steps, coros, twin>>

NextMock ==
  \/ \E m \in Mocks, sig \in CallSigs : Call(m, sig)
  \/ \E m \in Mocks : ResetMock(m)
  \/ \E name \in RESERVED_MOCK_ATTRIBUTES, v \in AssignValues :
       SetAttr(RootMock, name, v)

SpecMock == InitMock /\ [][NextMock]_vars

\* ----------------------------------- Mock and AsyncMock: attributes, spec
\* await m(*args, **kwargs)
AwaitCall(m, sig) ==
  /\ TotalCalls < MaxCalls
  /\ LET r == AsyncMock__call__(Heap, m, sig) IN
     /\ SetHeap(r.H)
     /\ last' = Step("call", m, "", sig, r)
  /\ total' = Put(total, m, Total(m) + 1)
  /\ hist' = Put(hist, m, Append(Hist(m), sig))
  /\ UNCHANGED <<patches, stack, ctor, assigned, steps, written, coros, twin>>

AsyncMocks == {o \in ObjIds \ FixtureObjs : kind[o] = "AsyncMock"}

\* The spec arguments of the tests: a list of names, a class, an instance.
SpecArgs ==
  {SpecNone, SpecList(<<"foo", "bar">>),
   SpecObject("class", FixtureHeap, TestClassObj),
   SpecObject("instance", FixtureHeap, TestInstObj)}
\* Names read and assigned: in the list spec, in the object spec, in neither.
ReadNames == {"foo", "x", "baz"}
WriteNames == {"foo", "baz"}
WriteValues == {IntV(7), IntV(0)}

\* Mock(...) or AsyncMock(...)
InitAttr ==
  \E cls \in {"Mock", "AsyncMock"}, sp \in SpecArgs,
     se \in {None_, ListV(<<1>>)}, rv \in {None_, IntV(42)} :
    LET H == IF cls = "Mock"
             THEN Mock__init__(FixtureHeap, sp, se, rv, {})
             ELSE AsyncMock__init__(FixtureHeap, sp, se, rv, {})
    IN
    /\ kind = H.kind
    /\ instance_dict = H.dict
    /\ calls = H.calls
    /\ spec = H.spec
    /\ iters = H.iters
    /\ sys_modules = H.mods
    /\ ctor = [spec |-> sp, side_effect |-> se, return_value |-> rv]
    /\ patches = <<>>
    /\ stack = <<>>
    /\ last = NoStep
    /\ total = Put(EmptyDict, RootMock, 0)
    /\ hist = Put(EmptyDict, RootMock, <<>>)
    /\ assigned = {}
    /\ steps = 0
    /\ written = EmptyDict
    /\ coros = <<>>
    /\ twin = FixtureHeap

NextAttr ==
  \/ \E name \in ReadNames : GetAttr(RootMock, name)
  \/ \E name \in WriteNames, v \in WriteValues : SetAttr(RootMock, name, v)
  \/ RootMock \in Mocks /\ Call(RootMock, NoSig)
  \/ RootMock \in AsyncMocks /\ AwaitCall(RootMock, NoSig)
  \/ ResetMock(RootMock)

SpecAttr == InitAttr /\ [][NextAttr]_vars

\* ------------------------------ specification: falsy constructor arguments
\* Mock(...) or AsyncMock(...) with arguments that are None, falsy (an empty
\* list or tuple, an empty string, 0, False) or neither; the mock is then
\* invoked, read and reset.
InitFalsy ==
  \E cls \in {"Mock", "AsyncMock"},
     sp \in {SpecNone, SpecList(<<>>), SpecList(<<"foo">>)},
     se \in {None_, ListV(<<>>), TupleV(<<>>), IntV(0), ListV(<<1>>)},
     rv \in {None_, IntV(0), BoolV(FALSE), StrV(<<>>), IntV(42)} :
    LET H == IF cls = "Mock"
             THEN Mock__init__(FixtureHeap, sp, se, rv, {})
             ELSE AsyncMock__init__(FixtureHeap, sp, se, rv, {})
    IN
    /\ kind = H.kind
    /\ instance_dict = H.dict
    /\ calls = H.calls
    /\ spec = H.spec
    /\ iters = H.iters
    /\ sys_modules = H.mods
    /\ ctor = [spec |-> sp, side_effect |-> se, return_value |-> rv]
    /\ patches = <<>>
    /\ stack = <<>>
    /\ last = NoStep
    /\ total = Put(EmptyDict, RootMock, 0)
    /\ hist = Put(EmptyDict, RootMock, <<>>)
    /\ assigned = {}
    /\ steps = 0
    /\ written = EmptyDict
    /\ coros = <<>>
    /\ twin = FixtureHeap

NextFalsy ==
  \/ \E name \in ReadNames : GetAttr(RootMock, name)
  \/ RootMock \in Mocks /\ Call(RootMock, NoSig)
  \/ RootMock \in AsyncMocks /\ AwaitCall(RootMock, NoSig)
  \/ ResetMock(RootMock)

SpecFalsy == InitFalsy /\ [][NextFalsy]_vars

\* ------------------------------------ specification: a mock and its children
\* A Mock, with or without a list spec, whose attributes are read, creating
\* children and their children, and where every Mock there is gets invoked
\* and reset, MaxFamilyCalls invocations in the whole family.
MaxFamilyCalls == 2

InitFamily ==
  \E sp \in {SpecNone, SpecList(<<"foo", "bar">>)} :
    LET H == Mock__init__(FixtureHeap, sp, None_, None_, {}) IN
    /\ kind = H.kind
    /\ instance_dict = H.dict
    /\ calls = H.calls
    /\ spec = H.spec
    /\ iters = H.iters
    /\ sys_modules = H.mods
    /\ ctor = [spec |-> sp, side_effect |-> None_, return_value |-> None_]
    /\ patches = <<>>
    /\ stack = <<>>
    /\ last = NoStep
    /\ total = Put(EmptyDict, RootMock, 0)
    /\ hist = Put(EmptyDict, RootMock, <<>>)
    /\ assigned = {}
    /\ steps = 0
    /\ written = EmptyDict
    /\ coros = <<>>
    /\ twin = FixtureHeap

NextFamily ==
  \/ \E m \in Mocks, name \in {"foo", "baz"} : GetAttr(m, name)
  \/ \E m \in Mocks, sig \in CallSigs :
       TotalCalls < MaxFamilyCalls /\ Call(m, sig)
  \/ \E m \in Mocks : ResetMock(m)

SpecFamily == InitFamily /\ [][NextFamily]_vars

\* ------------------------------------- specification: the assert_* methods
\* One Mock is invoked with three different argument lists, reset, read and
\* asserted upon.
MaxExpected == 2

AssertSigs ==
  CallSigs \cup {CallSig(<<IntV(1), IntV(3)>>, {<<"a", IntV(3)>>})}

\* The lists of calls handed to assert_has_calls.
RECURSIVE CallLists(_)
CallLists(n) ==
  IF n = 0 THEN {<<>>}
  ELSE LET S == CallLists(n - 1) IN
       S \cup {Append(q, x) : q \in {r \in S : Len(r) = n - 1}, x \in AssertSigs}

PropertyNames == {"call_count", "called", "call_args", "call_args_list"}
AssertOps ==
  {"assert_called", "assert_called_once", "assert_called_with",
   "assert_called_once_with", "assert_any_call", "assert_has_calls",
   "assert_never_called"}

InitAssert ==
  \E kw \in {<<None_, IntV(42)>>, <<ListV(<<1, 2>>), None_>>} :
    LET se == kw[1]
        rv == kw[2]
        H == Mock__init__(FixtureHeap, SpecNone, se, rv, {}) IN
    /\ kind = H.kind
    /\ instance_dict = H.dict
    /\ calls = H.calls
    /\ spec = H.spec
    /\ iters = H.iters
    /\ sys_modules = H.mods
    /\ ctor = [spec |-> SpecNone, side_effect |-> se, return_value |-> rv]
    /\ patches = <<>>
    /\ stack = <<>>
    /\ last = NoStep
    /\ total = Put(EmptyDict, RootMock, 0)
    /\ hist = Put(EmptyDict, RootMock, <<>>)
    /\ assigned = {}
    /\ steps = 0
    /\ written = EmptyDict
    /\ coros = <<>>
    /\ twin = FixtureHeap

\* A method or property of the mock ran and ended as r.
Ran(op, name, sig, expected, any_order, r) ==
  /\ SetHeap(r.H)
  /\ last' = [Step(op, RootMock, name, sig, r) EXCEPT
                !.expected = expected, !.any_order = any_order]
  /\ UNCHANGED <<patches, stack, ctor, total, hist, assigned, steps, written, coros, twin>>

\* A read of a property, each assert_* method, an invocation, a reset.
NextAssert ==
  \/ \E sig \in AssertSigs : Call(RootMock, sig)
  \/ ResetMock(RootMock)
  \/ \E name \in PropertyNames :
       Ran("read", name, NoSig, <<>>, FALSE, ReadProperty(Heap, RootMock, name))
  \/ Ran("assert_called", "", NoSig, <<>>, FALSE, assert_called(Heap, RootMock))
  \/ Ran("assert_called_once", "", NoSig, <<>>, FALSE,
         assert_called_once(Heap, RootMock))
  \/ \E sig \in AssertSigs :
       Ran("assert_called_with", "", sig, <<>>, FALSE,
           assert_called_with(Heap, RootMock, sig))
  \/ \E sig \in AssertSigs :
       Ran("assert_called_once_with", "", sig, <<>>, FALSE,
           assert_called_once_with(Heap, RootMock, sig))
  \/ \E sig \in AssertSigs :
       Ran("assert_any_call", "", sig, <<>>, FALSE,
           assert_any_call(Heap, RootMock, sig))
  \/ \E expected \in CallLists(MaxExpected), any_order \in BOOLEAN :
       Ran("assert_has_calls", "", NoSig, expected, any_order,
           assert_has_calls(Heap, RootMock, expected, any_order))
  \/ Ran("assert_never_called", "", NoSig, <<>>, FALSE,
         assert_never_called(Heap, RootMock))

SpecAssert == InitAssert /\ [][NextAssert]_vars

\* ------------------------------------------ specification: coroutines
\* An AsyncMock is called, which creates a coroutine object and runs nothing
\* of the body; the coroutine objects are awaited later, in any order.  The
\* body of __call__ holds no await, so that an awaited coroutine runs from
\* its first statement to its return or raise without suspending.
MaxCoros == 2

InitAwait ==
  \E se \in {None_, ExcInst(1), ListV(<<1>>), ListV(<<1, 2>>), Fn(0)},
     rv \in {None_, IntV(42)} :
    LET H == AsyncMock__init__(FixtureHeap, SpecNone, se, rv, {}) IN
    /\ kind = H.kind
    /\ instance_dict = H.dict
    /\ calls = H.calls
    /\ spec = H.spec
    /\ iters = H.iters
    /\ sys_modules = H.mods
    /\ ctor = [spec |-> SpecNone, side_effect |-> se, return_value |-> rv]
    /\ patches = <<>>
    /\ stack = <<>>
    /\ last = NoStep
    /\ total = Put(EmptyDict, RootMock, 0)
    /\ hist = Put(EmptyDict, RootMock, <<>>)
    /\ assigned = {}
    /\ steps = 0
    /\ written = EmptyDict
    /\ coros = <<>>
    /\ twin = FixtureHeap

\* A call that runs the body at once, recording the await when called.
CreateCoroutine_records(m, sig) ==
  /\ Len(coros) < MaxCoros
  /\ TotalCalls + Len(coros) < MaxCalls
  /\ coros' = Append(coros, [self |-> m, sig |-> sig,
                             n |-> TotalCalls + Len(coros) + 1])
  /\ calls' = [calls EXCEPT ![m] = Append(@, sig)]
  /\ last' = Step("create", m, "", sig, Ret(Heap, V("coroutine", 0, <<>>)))
  /\ UNCHANGED <<kind, instance_dict, spec, iters, sys_modules,
                 patches, stack, ctor, total, hist, assigned, steps, written,
                 twin>>

\* c = m(*args, **kwargs); n counts the coroutine objects in creation order
CreateCoroutine(m, sig) ==
  /\ Len(coros) < MaxCoros
  /\ TotalCalls + Len(coros) < MaxCalls
  /\ coros' = Append(coros, [self |-> m, sig |-> sig,
                             n |-> TotalCalls + Len(coros) + 1])
  /\ last' = Step("create", m, "", sig, Ret(Heap, V("coroutine", 0, <<>>)))
  /\ UNCHANGED <<kind, instance_dict, calls, spec, iters, sys_modules,
                 patches, stack, ctor, total, hist, assigned, steps, written,
                 twin>>

\* await c, for the i-th of the coroutine objects not yet awaited
AwaitCoroutine(i) ==
  /\ i \in 1..Len(coros)
  /\ LET c == coros[i]
         r == AsyncMock__call__(Heap, c.self, c.sig)
     IN /\ SetHeap(r.H)
        /\ last' = Step("call", c.self, "", c.sig, r)
        /\ total' = Put(total, c.self, Total(c.self) + 1)
        /\ hist' = Put(hist, c.self, Append(Hist(c.self), c.sig))
  /\ coros' = SubSeq(coros, 1, i - 1) \o SubSeq(coros, i + 1, Len(coros))
  /\ UNCHANGED <<patches, stack, ctor, assigned, steps, written, twin>>

NextAwait ==
  \/ \E sig \in AssertSigs : CreateCoroutine(RootMock, sig)
  \/ \E i \in 1..MaxCoros : AwaitCoroutine(i)
  \/ ResetMock(RootMock)

SpecAwait == InitAwait /\ [][NextAwait]_vars

\* ------------------------------- specification: AsyncMock next to Mock
\* An AsyncMock and, in a heap of its own, a Mock built with the same
\* arguments; every operation is applied to both, an await of the AsyncMock
\* being run to its end before anything else happens.
Outcome(r) == [ok |-> r.ok, val |-> r.val, err |-> r.err]

InitMirror ==
  \E sp \in {SpecNone, SpecList(<<"foo">>)},
     se \in {None_, ExcInst(1), ListV(<<1>>), Fn(1)},
     rv \in {None_, IntV(42)} :
    LET H == AsyncMock__init__(FixtureHeap, sp, se, rv, {}) IN
    /\ kind = H.kind
    /\ instance_dict = H.dict
    /\ calls = H.calls
    /\ spec = H.spec
    /\ iters = H.iters
    /\ sys_modules = H.mods
    /\ twin = Mock__init__(FixtureHeap, sp, se, rv, {})
    /\ ctor = [spec |-> sp, side_effect |-> se, return_value |-> rv]
    /\ patches = <<>>
    /\ stack = <<>>
    /\ last = NoStep
    /\ total = Put(EmptyDict, RootMock, 0)
    /\ hist = Put(EmptyDict, RootMock, <<>>)
    /\ assigned = {}
    /\ steps = 0
    /\ written = EmptyDict
    /\ coros = <<>>

\* The operation ended as r on the AsyncMock and as t on the Mock.
Both(op, name, sig, r, t) ==
  /\ SetHeap(r.H)
  /\ twin' = t.H
  /\ last' = [Step(op, RootMock, name, sig, r) EXCEPT !.twin = Outcome(t)]
  /\ UNCHANGED <<patches, stack, ctor, steps, written, coros>>

\* await a(*args, **kwargs) and m(*args, **kwargs)
BothCalled(sig) ==
  /\ TotalCalls < MaxCalls
  /\ Both("call", "", sig, AsyncMock__call__(Heap, RootMock, sig),
          Mock__call__(twin, RootMock, sig))
  /\ total' = Put(total, RootMock, Total(RootMock) + 1)
  /\ hist' = Put(hist, RootMock, Append(Hist(RootMock), sig))
  /\ UNCHANGED assigned

\* a.reset_mock() and m.reset_mock()
BothReset ==
  /\ Both("reset_mock", "", NoSig, Ret(reset_mock(Heap, RootMock), None_),
          Ret(reset_mock(twin, RootMock), None_))
  /\ hist' = Put(hist, RootMock, <<>>)
  /\ UNCHANGED <<total, assigned>>

\* a.name and m.name
BothRead(name) ==
  /\ NeedsNew(Heap, ObjV(RootMock), name) => Free(Heap) # {}
  /\ NeedsNew(twin, ObjV(RootMock), name) => Free(twin) # {}
  /\ Both("getattr", name, NoSig, PyGetAttr(Heap, ObjV(RootMock), name),
          PyGetAttr(twin, ObjV(RootMock), name))
  /\ UNCHANGED <<total, hist, assigned>>

\* a.name = v and m.name = v
BothWritten(name, v) ==
  /\ Both("setattr", name, NoSig, Ret(PySetAttr(Heap, RootMock, name, v), v),
          Ret(PySetAttr(twin, RootMock, name, v), v))
  /\ assigned' = assigned \cup {name}
  /\ UNCHANGED <<total, hist>>

NextMirror ==
  \/ \E sig \in CallSigs : BothCalled(sig)
  \/ BothReset
  \/ \E name \in {"foo", "baz", "return_value"} : BothRead(name)
  \/ \E name \in {"baz", "side_effect"}, v \in {None_, IntV(7)} :
       BothWritten(name, v)

SpecMirror == InitMirror /\ [][NextMirror]_vars

\* ------------------------------------------------------- Mock: properties
SideEffectOf(m) == Get(instance_dict[m], "side_effect")
ReturnValueOf(m) == Get(instance_dict[m], "return_value")
LastIsCall == last.op = "call"

\* C5: call_args_list holds one (args, kwargs) entry per invocation made
\* since the last reset_mock(), in invocation order with duplicates kept,
\* and call_count is its length.
C5_LogIsInvocationsSinceReset ==
  \A m \in Mocks :
    /\ call_args_list(Heap, m) = Hist(m)
    /\ call_count(Heap, m) = Len(Hist(m))

\* Two equal invocations recorded after a reset that dropped an earlier one.
C5_Witness ==
  /\ Total(RootMock) > Len(Hist(RootMock))
  /\ Len(calls[RootMock]) = 2
  /\ calls[RootMock][1] = calls[RootMock][2]

\* C6: call_args is the last element of call_args_list, and is None exactly
\* when call_args_list is empty, as it is right after reset_mock().
C6_CallArgsIsLastEntry ==
  \A m \in Mocks :
    LET ca == call_args(Heap, m)
        log == call_args_list(Heap, m)
    IN /\ ca.isNone <=> log = <<>>
       /\ ~ca.isNone => ca.sig = log[Len(log)]
       /\ (last.op = "reset_mock" /\ last.self = m) => ca.isNone

\* A log of two different entries, the second the one call_args shows.
C6_Witness ==
  /\ LastIsCall
  /\ Len(calls[RootMock]) = 2
  /\ calls[RootMock][1] # calls[RootMock][2]
  /\ call_args(Heap, RootMock).sig = last.sig

\* C7: on invocation a configured side_effect alone decides the outcome,
\* whatever return_value is; return_value is returned only with no
\* side_effect configured; the auto-created child only with neither.
C7_ResponsePrecedence ==
  LastIsCall =>
    LET m == last.self
        se == SideEffectOf(m)
        rv == ReturnValueOf(m)
        child == Get(instance_dict[m], "_mock_value")
    IN /\ (se \notin {Absent, None_} /\ rv # Absent) =>
            /\ ~(last.ok /\ last.val = rv)
            /\ se.tag = "exc" => (~last.ok /\ last.err = "raised" /\ last.val = se)
            /\ se.tag = "fn" =>
                 IF FnRaises(se.n)
                 THEN ~last.ok /\ last.err = "raised" /\ last.val = FnError
                 ELSE last.ok /\ last.val = FnApply(se.n, last.sig)
            /\ se.tag = "iter" =>
                 \/ (~last.ok /\ last.err = "StopIteration")
                 \/ (last.ok /\ last.val \in Range(ItemsOf(ctor.side_effect)))
            /\ se.tag = "exctype" => (~last.ok /\ last.err = "raised")
            /\ se.tag \notin {"exc", "exctype", "fn", "iter"} =>
                 (~last.ok /\ last.err = "TypeError")
       /\ (rv # Absent /\ last.ok /\ last.val = rv) => se = Absent
       /\ (child # Absent /\ last.ok /\ last.val = child) =>
            (se = Absent /\ rv = Absent)

\* A mock with both configured was invoked and its callable side_effect
\* produced the result.
C7_Witness ==
  /\ LastIsCall
  /\ SideEffectOf(last.self).tag = "fn"
  /\ ReturnValueOf(last.self) = IntV(42)
  /\ last.ok /\ last.val = FnApply(SideEffectOf(last.self).n, last.sig)

\* C8: a Mock constructed with return_value = v (any v other than the
\* default None, falsy ones included) and no side_effect returns v from
\* every invocation.
C8_ConfiguredReturnValueIsReturned ==
  ( /\ LastIsCall
    /\ last.self = RootMock
    /\ ctor.return_value # None_
    /\ ctor.side_effect = None_
    /\ assigned = {} )
  => (last.ok /\ last.val = ctor.return_value)

\* C9: with neither return_value nor side_effect configured an invocation
\* returns a Mock, distinct from the parent, the same one every time.
C9_UnconfiguredCallReturnsStableChild ==
  ( /\ LastIsCall
    /\ SideEffectOf(last.self) = Absent
    /\ ReturnValueOf(last.self) = Absent )
  => /\ last.ok
     /\ last.val.tag = "obj"
     /\ kind[last.val.n] = "Mock"
     /\ last.val.n # last.self
     /\ last.val = Get(instance_dict[last.self], "_mock_value")

\* C10: a Mock constructed with side_effect = [v1..vn], n >= 1, returns vk
\* from its k-th invocation for k <= n and raises StopIteration from every
\* later one.
C10_SequenceSideEffect ==
  ( /\ LastIsCall
    /\ last.self = RootMock
    /\ ctor.side_effect.tag = "list"
    /\ Len(ctor.side_effect.items) >= 1
    /\ "side_effect" \notin assigned )
  => LET vs == ctor.side_effect.items
         k == Total(RootMock)
     IN IF k <= Len(vs)
        THEN last.ok /\ last.val = IntV(vs[k])
        ELSE ~last.ok /\ last.err = "StopIteration"

\* The invocation after the last of two different values.
C10_Witness ==
  /\ LastIsCall
  /\ ctor.side_effect = ListV(<<2, 1>>)
  /\ "side_effect" \notin assigned
  /\ Total(RootMock) = 3
  /\ last.err = "StopIteration"

\* C12: when side_effect is an exception instance every invocation raises
\* that instance itself; when it is an exception class every invocation
\* raises an instance the call creates from the class; either way nothing
\* is returned, whatever return_value is.
C12_ExceptionSideEffectRaised ==
  LastIsCall =>
    LET se == SideEffectOf(last.self) IN
    /\ se.tag = "exc" =>
         (~last.ok /\ last.err = "raised" /\ last.val = se)
    /\ se.tag = "exctype" =>
         (~last.ok /\ last.err = "raised" /\ last.val.tag = "excnew"
            /\ last.val.n = se.n)

\* The second invocation of a Mock built with an exception class and a
\* return_value.
C12_Witness ==
  /\ LastIsCall
  /\ SideEffectOf(last.self) = ExcType(1)
  /\ ReturnValueOf(last.self) = IntV(42)
  /\ Total(last.self) = 2
  /\ ~last.ok /\ last.val.tag = "excnew"

\* What Python calls an iterable or iterator among the model's values, an
\* exception (class or instance), and a callable that is not one.
Iterable(v) == v.tag \in {"str", "list", "tuple", "range", "iter"}
IsException(v) == v.tag \in {"exc", "exctype"}

\* C13: an invocation fails with TypeError exactly when the side_effect the
\* mock was configured with is neither callable, nor an exception class or
\* instance, nor an iterable or iterator; every iterable, whatever its
\* type, has its values handed out instead.
C13_TypeErrorOnlyForInvalidSideEffect ==
  ( /\ LastIsCall
    /\ last.self = RootMock
    /\ "side_effect" \notin assigned
    /\ Truthy(ctor.side_effect) )
  => /\ (~last.ok /\ last.err = "TypeError")
          <=> ~(\/ ctor.side_effect.tag = "fn"
                \/ IsException(ctor.side_effect)
                \/ Iterable(ctor.side_effect))
     /\ (Iterable(ctor.side_effect) /\ last.ok) =>
           last.val \in {IntV(ctor.side_effect.items[i]) :
                           i \in 1..Len(ctor.side_effect.items)}

\* C14: after side_effect = None has been assigned on a mock that was built
\* with a side_effect, an invocation raises nothing and answers as a mock
\* without side_effect does: with return_value when there is one.
C14_SideEffectClearedByNone ==
  ( /\ LastIsCall
    /\ last.self = RootMock
    /\ Truthy(ctor.side_effect)
    /\ "side_effect" \in assigned
    /\ SideEffectOf(RootMock) = None_ )
  => /\ last.ok
     /\ ReturnValueOf(RootMock) # Absent => last.val = ReturnValueOf(RootMock)

\* C15: on a Mock without spec, reading a name that was never assigned
\* returns a child Mock that is stored under that name, and nothing but an
\* assignment to the name changes what is stored: every later read returns
\* the identical child.
C15_AutoAttributeIsStable ==
  /\ []( ( /\ last.op = "getattr"
           /\ last.self = RootMock
           /\ kind[RootMock] = "Mock"
           /\ ctor.spec = SpecNone
           /\ last.name \notin assigned )
         => /\ last.ok
            /\ last.val.tag = "obj"
            /\ last.val.n # RootMock
            /\ kind[last.val.n] = "Mock"
            /\ Get(instance_dict[RootMock], last.name) = last.val )
  /\ [][\A name \in ReadNames :
          ( /\ kind[RootMock] = "Mock"
            /\ ctor.spec = SpecNone
            /\ name \in DOMAIN instance_dict[RootMock]
            /\ name \notin assigned' )
          => Get(instance_dict'[RootMock], name) = instance_dict[RootMock][name]]_vars

\* The same name read a second time, after an invocation and a reset.
C15_Witness ==
  /\ last.op = "getattr"
  /\ last.name = "foo"
  /\ kind[RootMock] = "Mock"
  /\ ctor.spec = SpecNone
  /\ assigned = {"baz"}
  /\ Total(RootMock) = 1
  /\ Hist(RootMock) = <<>>
  /\ last.val = ObjV(RootMock + 1)
  /\ instance_dict[RootMock]["foo"] = ObjV(RootMock + 1)

\* C16: on a Mock built with a spec every name of the spec can be read;
\* reading a name that is outside the spec, not reserved and never assigned
\* fails with AttributeError, and a read that fails creates and stores
\* nothing.
C16_SpecLimitsReads ==
  /\ []( (kind[RootMock] = "Mock" /\ SpecTruthy(ctor.spec)) =>
           \A n \in Range(ctor.spec.names) :
             PyGetAttr(Heap, ObjV(RootMock), n).ok )
  /\ []( ( /\ last.op = "getattr"
           /\ last.self = RootMock
           /\ kind[RootMock] = "Mock"
           /\ SpecTruthy(ctor.spec)
           /\ last.name \notin Range(ctor.spec.names)
           /\ last.name \notin assigned )
         => /\ ~last.ok
            /\ last.err = "AttributeError"
            /\ last.name \notin DOMAIN instance_dict[RootMock] )
  /\ [][(last'.op = "getattr" /\ ~last'.ok)
         => UNCHANGED <<kind, instance_dict, calls, spec, iters>>]_vars

\* A name outside a list spec is read after a name of the spec was.
C16_Witness ==
  /\ last.op = "getattr"
  /\ last.name = "baz"
  /\ kind[RootMock] = "Mock"
  /\ ctor.spec = SpecList(<<"foo", "bar">>)
  /\ last.err = "AttributeError"
  /\ assigned = {}
  /\ "baz" \notin DOMAIN instance_dict[RootMock]
  /\ PyGetAttr(Heap, ObjV(RootMock), "foo").val = ObjV(RootMock + 1)

\* A name outside the spec of the mock under test, neither reserved nor
\* internal.
OutsideSpec(name) ==
  /\ SpecTruthy(ctor.spec)
  /\ name \notin Range(ctor.spec.names)
  /\ name \notin UnderscoreNames \cup RESERVED_MOCK_ATTRIBUTES

\* C17 as stated: on a Mock with a spec, assigning a name outside the spec
\* fails with AttributeError.
C17_WriteOutsideSpecFails ==
  ( /\ last.op = "setattr"
    /\ last.self = RootMock
    /\ kind[RootMock] = "Mock"
    /\ OutsideSpec(last.name) )
  => /\ ~last.ok
     /\ last.err = "AttributeError"

\* C17: on a Mock with a spec, assigning a name outside the spec does not
\* fail: the assignment is an ordinary one and leaves the value stored under
\* the name in the instance.
C17_WriteOutsideSpecStores ==
  ( /\ last.op = "setattr"
    /\ last.self = RootMock
    /\ kind[RootMock] = "Mock"
    /\ OutsideSpec(last.name) )
  => /\ last.ok
     /\ Get(instance_dict[RootMock], last.name) = last.val

\* "baz" is assigned on a Mock whose list spec has refused to read it.
C17_Witness ==
  /\ last.op = "setattr"
  /\ last.name = "baz"
  /\ last.val = IntV(7)
  /\ kind[RootMock] = "Mock"
  /\ ctor.spec = SpecList(<<"foo", "bar">>)
  /\ instance_dict[RootMock]["baz"] = IntV(7)

\* C18: on a Mock or an AsyncMock built with a spec, a name outside the
\* spec that has been assigned reads, in every later state, as the value
\* last assigned to it, and the read does not raise.
C18_AssignedNameReadsBack ==
  /\ \A n \in DOMAIN written :
       OutsideSpec(n) =>
         /\ PyGetAttr(Heap, ObjV(RootMock), n).ok
         /\ PyGetAttr(Heap, ObjV(RootMock), n).val = written[n]
  /\ ( /\ last.op = "getattr"
       /\ last.self = RootMock
       /\ last.name \in DOMAIN written
       /\ OutsideSpec(last.name) )
     => /\ last.ok
        /\ last.val = written[last.name]

\* An AsyncMock with an instance as its spec: "baz" was assigned a falsy
\* value and is then read.
C18_Witness ==
  /\ last.op = "getattr"
  /\ last.name = "baz"
  /\ kind[RootMock] = "AsyncMock"
  /\ ctor.spec.form = "instance"
  /\ "baz" \in DOMAIN written
  /\ written["baz"] = IntV(0)
  /\ last.val = IntV(0)

\* C19 as stated: a Mock whose spec is an instance reports the class of the
\* instance as its __class__; a Mock whose spec is a class or a list reports
\* Mock.
C19_InstanceSpecSetsClass ==
  kind[RootMock] = "Mock" =>
    /\ ctor.spec.form = "instance"
         => Mock__class__(Heap, RootMock) = TestClassName
    /\ ctor.spec.form \in {"class", "list"}
         => Mock__class__(Heap, RootMock) = "Mock"

\* C20: a step of reset_mock() leaves the invocation log empty (call_count
\* 0, call_args None) and changes nothing else: the instance's attributes
\* (side_effect, return_value, the children and every assigned name), its
\* spec, the position of its side_effect iterator and every other object
\* stay as they were.
C20_ResetChangesOnlyTheLog ==
  /\ []( (last.op = "reset_mock" /\ last.self = RootMock) =>
           /\ call_count(Heap, RootMock) = 0
           /\ call_args(Heap, RootMock).isNone
           /\ call_args_list(Heap, RootMock) = <<>> )
  /\ [][last'.op = "reset_mock" =>
           /\ UNCHANGED <<kind, instance_dict, spec, iters, sys_modules>>
           /\ DOMAIN calls' = DOMAIN calls
           /\ \A o \in DOMAIN calls \ {RootMock} : calls'[o] = calls[o]]_vars

\* A mock with return_value 42 and an assigned attribute is reset after two
\* invocations.
C20_Witness ==
  /\ last.op = "reset_mock"
  /\ Total(RootMock) = 2
  /\ call_count(Heap, RootMock) = 0
  /\ ReturnValueOf(RootMock) = IntV(42)
  /\ ctor.spec = SpecList(<<"foo", "bar">>)
  /\ Get(instance_dict[RootMock], "baz") = IntV(7)

\* C38: reset_mock() leaves the iterator of a sequence side_effect where it
\* is.  When k invocations have consumed values of the sequence the mock was
\* constructed with and the mock is reset, the invocation that follows the
\* reset returns value k+1 of the sequence, leaving those after it, or
\* raises StopIteration when the sequence has no value k+1.
C38_ResetKeepsIteratorPosition ==
  /\ [][last'.op = "reset_mock" =>
          /\ iters' = iters
          /\ Get(instance_dict'[RootMock], "side_effect")
               = Get(instance_dict[RootMock], "side_effect")]_vars
  /\ [][( /\ last.op = "reset_mock"
          /\ last.self = RootMock
          /\ last'.op = "call"
          /\ last'.self = RootMock
          /\ Total(RootMock)' = Total(RootMock) + 1
          /\ ctor.side_effect.tag = "list"
          /\ Len(ctor.side_effect.items) >= 1
          /\ "side_effect" \notin assigned ) =>
        LET vs == ctor.side_effect.items
            k == Total(RootMock)
        IN IF k < Len(vs)
           THEN /\ last'.ok
                /\ last'.val = IntV(vs[k + 1])
                /\ Len(iters'[SideEffectOf(RootMock).n]) = Len(vs) - k - 1
           ELSE ~last'.ok /\ last'.err = "StopIteration"]_vars

\* The first value of [2, 1] was consumed, the mock was reset, and the
\* invocation after the reset returned the second value.
C38_Witness ==
  /\ LastIsCall
  /\ last.self = RootMock
  /\ ctor.side_effect = ListV(<<2, 1>>)
  /\ "side_effect" \notin assigned
  /\ Total(RootMock) = 2
  /\ Len(calls[RootMock]) = 1
  /\ last.ok
  /\ last.val = IntV(1)

\* The log as the invocations made since the last reset.
Log == Hist(RootMock)

\* C21: assert_called_with(*args, **kwargs) returns exactly when the mock
\* has been invoked since the last reset and the latest invocation had
\* these arguments; in every other case, the empty log and a match of
\* an earlier invocation only included, it raises AssertionError.
C21_AssertCalledWith ==
  last.op = "assert_called_with" =>
    /\ last.ok <=> (Log # <<>> /\ Log[Len(Log)] = last.sig)
    /\ ~last.ok => last.err = "AssertionError"

\* Only the earlier of two invocations had the arguments asserted.
C21_Witness ==
  /\ last.op = "assert_called_with"
  /\ Len(Log) = 2
  /\ Log[1] = last.sig
  /\ Log[2] # last.sig
  /\ last.err = "AssertionError"

\* C22: assert_has_calls(expected) with any_order false returns exactly
\* when expected is no longer than the log and equals the log's prefix of
\* that length; otherwise, a run found only at a later offset included, it
\* raises AssertionError.
C22_AssertHasCallsPrefix ==
  (last.op = "assert_has_calls" /\ ~last.any_order) =>
    /\ last.ok <=> ( /\ Len(last.expected) <= Len(Log)
                     /\ SubSeq(Log, 1, Len(last.expected)) = last.expected )
    /\ ~last.ok => last.err = "AssertionError"

\* The expected call is the second entry of the log and not the first.
C22_Witness ==
  /\ last.op = "assert_has_calls"
  /\ ~last.any_order
  /\ Len(last.expected) = 1
  /\ Len(Log) = 2
  /\ Log[2] = last.expected[1]
  /\ Log[1] # last.expected[1]
  /\ last.err = "AssertionError"

\* C23: assert_has_calls(expected, any_order=True) returns exactly when
\* expected is no longer than the log and each of its entries is an element
\* of the log; otherwise it raises AssertionError.  Neither order nor the
\* number of occurrences counts.
C23_AssertHasCallsAnyOrder ==
  (last.op = "assert_has_calls" /\ last.any_order) =>
    /\ last.ok <=> ( /\ Len(last.expected) <= Len(Log)
                     /\ Range(last.expected) \subseteq Range(Log) )
    /\ ~last.ok => last.err = "AssertionError"

\* The same call expected twice passes on a log that holds it once.
C23_Witness ==
  /\ last.op = "assert_has_calls"
  /\ last.any_order
  /\ last.ok
  /\ Len(last.expected) = 2
  /\ last.expected[1] = last.expected[2]
  /\ Len(Log) = 2
  /\ Log[1] # Log[2]
  /\ Log[2] = last.expected[1]

\* C29: a step of an assert_* method or of a read of call_count, called,
\* call_args or call_args_list changes no object: the log, the attributes
\* (side_effect and return_value among them), the iterator of a sequence
\* side_effect and the spec are what they were, whether the method
\* returned or raised AssertionError.
C29_AssertsAndReadsChangeNothing ==
  [][last'.op \in AssertOps \cup {"read"} =>
       UNCHANGED <<kind, instance_dict, calls, spec, iters, sys_modules>>]_vars

\* An assertion failed on a mock whose sequence side_effect is half used.
C29_Witness ==
  /\ last.op = "assert_any_call"
  /\ ~last.ok
  /\ Len(calls[RootMock]) = 1
  /\ SideEffectOf(RootMock).tag = "iter"
  /\ Len(iters[SideEffectOf(RootMock).n]) = 1

\* C28: an invocation is in the log whatever its outcome: by the time it
\* has returned or raised (the exception or exception class given as
\* side_effect, StopIteration of an exhausted sequence, the error raised by
\* a callable side_effect, TypeError for an invalid side_effect) the log is
\* one entry longer than before and call_args is the invocation's
\* (args, kwargs).
C28_FailedInvocationIsRecorded ==
  /\ [](LastIsCall =>
          /\ call_count(Heap, last.self) >= 1
          /\ ~call_args(Heap, last.self).isNone
          /\ call_args(Heap, last.self).sig = last.sig)
  /\ [][\A m \in Mocks :
           Total(m)' # Total(m) =>
             /\ call_count(Heap, m)' = call_count(Heap, m) + 1
             /\ call_args_list(Heap, m)' = Append(call_args_list(Heap, m), last'.sig)]_vars

\* The second invocation made the callable side_effect raise.
C28_Witness ==
  /\ LastIsCall
  /\ last.self = RootMock
  /\ ~last.ok
  /\ last.val = FnError
  /\ SideEffectOf(RootMock) = Fn(0)
  /\ call_count(Heap, RootMock) = 2
  /\ call_args(Heap, RootMock).sig = CallSig(<<IntV(1), IntV(2)>>, {<<"a", IntV(3)>>})

\* o holds c as the value of one of its attributes.
IsChildOf(c, o) ==
  \E n \in DOMAIN instance_dict[o] : instance_dict[o][n] = ObjV(c)

\* C27: an invocation of a mock is recorded on that mock alone: the step
\* appends the invocation to its own log and leaves the log of every other
\* mock, its parent and its children among them, as it was.
C27_CallsAreNotPropagated ==
  [][\A m \in Mocks :
       Total(m)' # Total(m) =>
         /\ calls'[m] = Append(calls[m], last'.sig)
         /\ \A o \in DOMAIN calls \ {m} :
              o \in DOMAIN calls' /\ calls'[o] = calls[o]]_vars

\* The auto-created attribute foo of the first Mock was invoked after the
\* first Mock itself, with other arguments, and foo has a child of its own.
C27_Witness ==
  /\ LastIsCall
  /\ last.self # RootMock
  /\ ctor.spec = SpecNone
  /\ IsChildOf(last.self, RootMock)
  /\ \E c \in Mocks : IsChildOf(c, last.self)
  /\ call_count(Heap, RootMock) = 1
  /\ call_count(Heap, last.self) = 1
  /\ calls[RootMock][1] # calls[last.self][1]

\* C25 as stated: what an AsyncMock creates implicitly is an AsyncMock that
\* stays the same object: the value of a first read of an unknown
\* attribute, and the result of an await with neither return_value nor
\* side_effect configured.
C25_ImplicitChildrenAreAsyncMocks ==
  kind[RootMock] = "AsyncMock" =>
    /\ ( /\ last.op = "getattr"
         /\ ctor.spec = SpecNone
         /\ last.name \notin assigned )
       => /\ last.ok
          /\ last.val.tag = "obj"
          /\ kind[last.val.n] = "AsyncMock"
          /\ Get(instance_dict[RootMock], last.name) = last.val
    /\ ( /\ LastIsCall
         /\ last.self = RootMock
         /\ ctor.side_effect = None_
         /\ ctor.return_value = None_ )
       => /\ last.ok
          /\ last.val.tag = "obj"
          /\ kind[last.val.n] = "AsyncMock"
          /\ Get(instance_dict[RootMock], "_mock_value") = last.val

\* C30: when an await of an AsyncMock has completed or raised, its entry is
\* the last element of await_args_list; the await added exactly that one
\* entry, and calling the mock without awaiting the coroutine added none.
C30_AwaitIsRecordedBeforeItEnds ==
  /\ []( (LastIsCall /\ kind[last.self] = "AsyncMock") =>
           /\ calls[last.self] # <<>>
           /\ calls[last.self][Len(calls[last.self])] = last.sig )
  /\ [][\A m \in AsyncMocks :
           /\ Total(m)' # Total(m) => calls'[m] = Append(calls[m], last'.sig)
           /\ Len(coros') > Len(coros) => calls'[m] = calls[m]]_vars

\* Of two coroutines the later created was awaited first; the await of the
\* other has just raised the configured exception.
C30_Witness ==
  /\ LastIsCall
  /\ ~last.ok
  /\ last.val = ExcInst(1)
  /\ coros = <<>>
  /\ twin = FixtureHeap
  /\ Len(calls[RootMock]) = 2
  /\ calls[RootMock][2] = CallSig(<<>>, {})
  /\ calls[RootMock][1] # CallSig(<<>>, {})
  /\ Total(RootMock) = 2

\* C36: the entry of an invocation enters the log when its coroutine is
\* awaited: creating a coroutine changes neither the log nor the iterator
\* of a sequence side_effect; awaiting one appends its arguments behind the
\* entries of the coroutines awaited before it, whichever was created first,
\* and takes the next value of the sequence; and the log never holds an
\* entry of a coroutine that is still not awaited.
C36_LogFollowsAwaitOrder ==
  /\ [][\A i \in 1..Len(coros) :
          AwaitCoroutine(i) =>
            /\ calls'[RootMock] = Append(calls[RootMock], coros[i].sig)
            /\ \A j \in 1..Len(coros') : coros'[j].n # coros[i].n
            /\ (SideEffectOf(RootMock).tag = "iter"
                /\ iters[SideEffectOf(RootMock).n] # <<>>) =>
                 /\ last'.ok
                 /\ last'.val = Head(iters[SideEffectOf(RootMock).n])
                 /\ iters'[SideEffectOf(RootMock).n]
                      = Tail(iters[SideEffectOf(RootMock).n])]_vars
  /\ [][Len(coros') > Len(coros) =>
          /\ calls' = calls
          /\ iters' = iters
          /\ instance_dict' = instance_dict]_vars
  /\ [](Len(calls[RootMock]) <= Total(RootMock))

\* The coroutine created first is still waiting; the one created after it
\* was awaited, got the first value of the sequence and is first in the log.
C36_Witness ==
  /\ LastIsCall
  /\ last.ok
  /\ last.val = IntV(1)
  /\ Len(coros) = 1
  /\ coros[1].n = 1
  /\ coros[1].sig = CallSig(<<>>, {})
  /\ calls[RootMock] = <<CallSig(<<IntV(1), IntV(2)>>, {<<"a", IntV(3)>>})>>
  /\ Len(iters[SideEffectOf(RootMock).n]) = 1

C39_SpecChildrenAreSynchronous ==
  kind[RootMock] = "AsyncMock" =>
    LET names == IF SpecTruthy(ctor.spec) THEN Range(ctor.spec.names) ELSE {}
    IN /\ \A n \in names \ assigned :
            /\ n \in DOMAIN instance_dict[RootMock]
            /\ instance_dict[RootMock][n].tag = "obj"
            /\ kind[instance_dict[RootMock][n].n] = "Mock"
       /\ (last.op = "getattr" /\ last.ok /\ last.name \notin assigned) =>
            /\ last.val = instance_dict[RootMock][last.name]
            /\ kind[last.val.n] = IF last.name \in names
                                  THEN "Mock" ELSE "AsyncMock"

\* AsyncMock(spec=["foo", "bar"]): foo was read and is a Mock.
C39_Witness ==
  /\ kind[RootMock] = "AsyncMock"
  /\ ctor.spec = SpecList(<<"foo", "bar">>)
  /\ assigned = {}
  /\ last.op = "getattr"
  /\ last.name = "foo"
  /\ last.ok
  /\ kind[last.val.n] = "Mock"
  /\ kind[instance_dict[RootMock]["bar"].n] = "Mock"

\* The same object is an AsyncMock on one side and a Mock on the other: the
\* two mocks themselves and the children they created on an attribute read.
KindsCorrespond(o) ==
  \/ kind[o] = twin.kind[o]
  \/ kind[o] = "AsyncMock" /\ twin.kind[o] = "Mock"

\* The outcome r of the AsyncMock against the outcome t of the Mock.
SameOutcome(r, t) ==
  \/ /\ r.ok /\ t.ok
     /\ r.val = t.val
  \/ /\ ~r.ok /\ ~t.ok
     /\ \/ r.err = t.err /\ r.val = t.val
        \/ r.err = "RuntimeError" /\ r.val = StopIterationExc
             /\ t.err = "StopIteration"

\* C24: an AsyncMock and a Mock built from the same arguments and taken
\* through the same invocations, resets, attribute reads and writes have
\* equal logs and equal attributes, and each operation ends in the same
\* value or error on both, but for RuntimeError in place of StopIteration
\* on exhaustion and AsyncMock in place of Mock for a created child.
C24_AsyncMockMirrorsMock ==
  /\ calls[RootMock] = twin.calls[RootMock]
  /\ Len(calls[RootMock]) = call_count(twin, RootMock)
  /\ calls = twin.calls
  /\ instance_dict = twin.dict
  /\ spec = twin.spec
  /\ iters = twin.iters
  /\ \A o \in ObjIds : KindsCorrespond(o)
  /\ \A n \in Range(ctor.spec.names) \ assigned :
       /\ kind[instance_dict[RootMock][n].n] = "Mock"
       /\ twin.kind[instance_dict[RootMock][n].n] = "Mock"
  /\ last.op # "" => SameOutcome(last, last.twin)

\* The second invocation found the sequence exhausted, after an attribute
\* had been read on both.
C24_Witness ==
  /\ LastIsCall
  /\ last.err = "RuntimeError"
  /\ last.twin.err = "StopIteration"
  /\ Len(calls[RootMock]) = 2
  /\ "baz" \in DOMAIN instance_dict[RootMock]
  /\ instance_dict[RootMock]["baz"].tag = "obj"
  /\ kind[instance_dict[RootMock]["baz"].n] = "AsyncMock"
  /\ twin.kind[instance_dict[RootMock]["baz"].n] = "Mock"

\* C11: once the list given as side_effect is used up, an invocation of a
\* Mock raises a plain StopIteration, while an await of an AsyncMock raises
\* a RuntimeError whose cause is the StopIteration.
C11_ExhaustionErrorByKind ==
  ( /\ LastIsCall
    /\ last.self = RootMock
    /\ ctor.side_effect.tag = "list"
    /\ "side_effect" \notin assigned
    /\ Total(RootMock) > Len(ctor.side_effect.items) )
  => /\ ~last.ok
     /\ kind[RootMock] = "Mock" =>
          (last.err = "StopIteration" /\ last.val # StopIterationExc)
     /\ kind[RootMock] = "AsyncMock" =>
          (last.err = "RuntimeError" /\ last.val = StopIterationExc)

\* An AsyncMock awaited once more than its list has items.
C11_Witness ==
  /\ LastIsCall
  /\ kind[RootMock] = "AsyncMock"
  /\ ctor.side_effect = ListV(<<1>>)
  /\ Total(RootMock) = 2
  /\ last.err = "RuntimeError"

\* ------------------------------------------------------------ patch_target
\* s.split(sep) on a token string: the pieces between the separators.
RECURSIVE Split(_, _)
Split(s, sep) ==
  IF \A i \in 1..Len(s) : s[i] # sep THEN <<s>>
  ELSE LET i == CHOOSE j \in 1..Len(s) :
                  s[j] = sep /\ \A k \in 1..(j - 1) : s[k] # sep
       IN <<SubSeq(s, 1, i - 1)>> \o Split(SubSeq(s, i + 1, Len(s)), sep)

\* The attribute name a piece of the chain spells ("" when it is empty).
NameOf(part) == IF Len(part) = 1 THEN part[1] ELSE ""

\* import_module(module_path): __import__ hands back what is registered
\* under the name (a registered None halts the import), else loads and
\* registers the module; ImportError when there is none.
import_module(H, module_path) ==
  IF module_path \in DOMAIN H.mods
  THEN IF H.mods[module_path] = None_ THEN Raise(H, "ImportError", None_)
       ELSE Ret(H, H.mods[module_path])
  ELSE IF module_path \in DOMAIN Importable
  THEN Ret([H EXCEPT !.mods = Put(@, module_path, Importable[module_path])],
           Importable[module_path])
  ELSE Raise(H, "ImportError", None_)

\* for part in parts: parent = getattr(parent, part)
RECURSIVE Walk(_, _)
Walk(r, parts) ==
  IF ~r.ok \/ parts = <<>> THEN r
  ELSE Walk(PyGetAttr(r.H, r.val, NameOf(Head(parts))), Tail(parts))

\* The objects a walk over parts from parent creates (children of Mocks).
RECURSIVE WalkNeeds(_, _)
WalkNeeds(r, parts) ==
  IF ~r.ok \/ parts = <<>> THEN 0
  ELSE IF NeedsNew(r.H, r.val, NameOf(Head(parts))) /\ Free(r.H) = {} THEN 1
  ELSE (IF NeedsNew(r.H, r.val, NameOf(Head(parts))) THEN 1 ELSE 0)
       + WalkNeeds(PyGetAttr(r.H, r.val, NameOf(Head(parts))), Tail(parts))

\* The objects patch_target(target, ...) creates on the way.
TargetNeeds(H, target) ==
  IF \A i \in 1..Len(target) : target[i] # ":" THEN 0
  ELSE LET halves == Split(target, ":") IN
       IF Len(halves) # 2 THEN 0
       ELSE LET got == Get(H.mods, halves[1])
                mod == IF got # Absent /\ Truthy(got)
                       THEN Ret(H, got)
                       ELSE import_module(H, halves[1])
            IN WalkNeeds(mod, Split(halves[2], "."))

\* What the target is bound to, found the way patch_target finds it: the
\* registered (or imported) module, then getattr along the chain.  Absent
\* when the lookup fails, or has no binding to find and would create one.
Bound(H, target) ==
  LET halves == Split(target, ":")
      mod == IF Len(halves) = 1 /\ target \in DOMAIN H.mods
             THEN Ret(H, H.mods[target])
             ELSE import_module(H, halves[1])
      r == IF Len(halves) = 1 THEN mod ELSE Walk(mod, Split(halves[2], "."))
  IN IF Len(halves) > 2 \/ TargetNeeds(H, target) > 0 \/ ~r.ok THEN Absent
     ELSE r.val

\* patch_target that looks the target up and leaves it as it is.
patch_target_keeps_binding(H, target, replacement) ==
  IF Bound(H, target) = Absent THEN Raise(H, "AttributeError", None_)
  ELSE Ret(H, Bound(H, target))

\* patch_target that binds the replacement before it looks the old object up.
patch_target_binds_first(H, target, replacement) ==
  LET halves == Split(target, ":") IN
  IF Len(halves) = 1
  THEN LET r == IF target \in DOMAIN H.mods THEN Ret(H, H.mods[target])
                ELSE import_module(H, target)
       IN IF ~r.ok THEN r
          ELSE Ret([r.H EXCEPT !.mods = Put(@, target, replacement)], r.val)
  ELSE IF Len(halves) # 2 THEN Raise(H, "ValueError", None_)
  ELSE
  LET parts == Split(halves[2], ".")
      target_name == NameOf(parts[Len(parts)])
      got == Get(H.mods, halves[1])
      mod == IF got # Absent /\ Truthy(got) THEN Ret(H, got)
             ELSE import_module(H, halves[1])
      parent == Walk(mod, SubSeq(parts, 1, Len(parts) - 1))
      old_object == IF parent.ok
                    THEN PyGetAttr(parent.H, parent.val, target_name)
                    ELSE parent
  IN IF ~parent.ok \/ parent.val.tag # "obj" THEN old_object
     ELSE [old_object EXCEPT
             !.H = PySetAttr(old_object.H, parent.val.n, target_name,
                             replacement)]

\* patch_target(target, replacement)
patch_target(H, target, replacement) ==
  IF \A i \in 1..Len(target) : target[i] # ":"
  THEN \* no colon: the target is a module
       LET r == IF target \in DOMAIN H.mods
                THEN Ret(H, H.mods[target])
                ELSE import_module(H, target)
       IN IF ~r.ok THEN r
          ELSE Ret([r.H EXCEPT !.mods = Put(@, target, replacement)], r.val)
  ELSE LET halves == Split(target, ":") IN
       IF Len(halves) # 2 THEN Raise(H, "ValueError", None_)
       ELSE
       LET module_name == halves[1]
           attributes == halves[2]
           parts == Split(attributes, ".")
           target_name == NameOf(parts[Len(parts)])
           got == Get(H.mods, module_name)
           mod == IF got # Absent /\ Truthy(got)
                  THEN Ret(H, got)
                  ELSE import_module(H, module_name)
           parent == Walk(mod, SubSeq(parts, 1, Len(parts) - 1))
           old_object == IF parent.ok
                         THEN PyGetAttr(parent.H, parent.val, target_name)
                         ELSE parent
       IN IF ~old_object.ok THEN old_object
          ELSE Ret(PySetAttr(old_object.H, parent.val.n, target_name, replacement),
                   old_object.val)

\* ---------------------------------------------------------- resolve_target
\* resolve_target is imported by tests/test_resolve_target.py and is not in
\* umock.py; it is modelled on its description (the Target Resolver's
\* operation resolve) and on those tests.  The target is a string, StrV of
\* its pieces, or an object already resolved.

\* The pieces of path behind its first colon.
AfterColon(path) ==
  LET i == CHOOSE j \in 1..Len(path) :
             path[j] = ":" /\ \A k \in 1..(j - 1) : path[k] # ":"
  IN SubSeq(path, i + 1, Len(path))
BeforeColon(path) == Split(path, ":")[1]

\* resolve that answers None for a segment that is missing.
resolve_target_or_none(H, target) ==
  IF target.tag # "str" THEN Ret(H, target)
  ELSE LET path == target.items
           colon == \E i \in 1..Len(path) : path[i] = ":"
           module_name == IF colon THEN BeforeColon(path)
                          ELSE IF Len(path) = 1 THEN path
                          ELSE SubSeq(path, 1, Len(path) - 2)
           parts == IF colon THEN Split(AfterColon(path), ".")
                    ELSE IF Len(path) = 1 THEN <<>>
                    ELSE <<<<path[Len(path)]>>>>
           r == Walk(import_module(H, module_name), parts)
       IN IF ~r.ok /\ r.err = "AttributeError" THEN Ret(r.H, None_) ELSE r

\* resolve_target(target): without a colon the last dotted piece is an
\* attribute of the module the pieces before it name; with a colon the
\* module is named before it and a chain of attributes behind it.
resolve_target(H, target) ==
  IF target.tag # "str" THEN Ret(H, target)
  ELSE LET path == target.items
           colon == \E i \in 1..Len(path) : path[i] = ":"
           module_name == IF colon THEN BeforeColon(path)
                          ELSE IF Len(path) = 1 THEN path
                          ELSE SubSeq(path, 1, Len(path) - 2)
           parts == IF colon THEN Split(AfterColon(path), ".")
                    ELSE IF Len(path) = 1 THEN <<>>
                    ELSE <<<<path[Len(path)]>>>>
       IN Walk(import_module(H, module_name), parts)

\* The objects resolve_target(target) creates on the way (children of a
\* Mock that stands in the chain).
ResolveNeeds(H, target) ==
  IF target.tag # "str" THEN 0
  ELSE LET path == target.items
           colon == \E i \in 1..Len(path) : path[i] = ":"
           module_name == IF colon THEN BeforeColon(path)
                          ELSE IF Len(path) = 1 THEN path
                          ELSE SubSeq(path, 1, Len(path) - 2)
           parts == IF colon THEN Split(AfterColon(path), ".")
                    ELSE IF Len(path) = 1 THEN <<>>
                    ELSE <<<<path[Len(path)]>>>>
       IN WalkNeeds(import_module(H, module_name), parts)

\* ------------------------------------------------------------------- patch
\* patch.__init__(self, target, new=None, **kwargs); given keeps the new
\* argument as passed, old is self._old once it exists.
patch__init__(target, new, kwargs) ==
  [target |-> target, new |-> new, kwargs |-> kwargs, old |-> Absent,
   given |-> new]

\* The result of a method of patch: the heap, the outcome and self.
PRet(r, P) == [H |-> r.H, ok |-> r.ok, val |-> r.val, err |-> r.err, P |-> P]

\* __enter__ saving what the target was bound to when the module was loaded.
patch__enter__saves_original(H, P) ==
  LET made == ~Truthy(P.new)
      H1 == IF made
            THEN Mock__init__(H, P.kwargs.spec, P.kwargs.side_effect,
                              P.kwargs.return_value, {})
            ELSE H
      new == IF made THEN ObjV(NewId(H)) ELSE P.new
      P1 == [P EXCEPT !.new = new]
      r == patch_target(H1, P.target, new)
  IN IF r.ok
     THEN PRet(Ret(r.H, new), [P1 EXCEPT !.old = Bound(FixtureHeap, P.target)])
     ELSE PRet(r, P1)

\* __enter__ making a Mock whenever the instance was constructed without new.
patch__enter__makes_anew(H, P) ==
  LET made == ~Truthy(P.given)
      H1 == IF made
            THEN Mock__init__(H, P.kwargs.spec, P.kwargs.side_effect,
                              P.kwargs.return_value, {})
            ELSE H
      new == IF made THEN ObjV(NewId(H)) ELSE P.new
      P1 == [P EXCEPT !.new = new]
      r == patch_target(H1, P.target, new)
  IN IF r.ok THEN PRet(Ret(r.H, new), [P1 EXCEPT !.old = r.val])
     ELSE PRet(r, P1)

\* patch.__enter__(self)
patch__enter__(H, P) ==
  LET made == ~Truthy(P.new)
      H1 == IF made
            THEN Mock__init__(H, P.kwargs.spec, P.kwargs.side_effect,
                              P.kwargs.return_value, {})
            ELSE H
      new == IF made THEN ObjV(NewId(H)) ELSE P.new
      P1 == [P EXCEPT !.new = new]
      r == patch_target(H1, P.target, new)
  IN IF r.ok THEN PRet(Ret(r.H, new), [P1 EXCEPT !.old = r.val])
     ELSE PRet(r, P1)

\* The objects __enter__ creates: the Mock it makes when new is falsy, and
\* what patch_target creates.
EnterNeeds(H, P) ==
  IF Truthy(P.new) THEN TargetNeeds(H, P.target)
  ELSE InitNeeds(P.kwargs.spec)
       + (IF InitNeeds(P.kwargs.spec) <= Cardinality(Free(H))
          THEN TargetNeeds(Mock__init__(H, P.kwargs.spec, P.kwargs.side_effect,
                                        P.kwargs.return_value, {}), P.target)
          ELSE 0)

\* __exit__ putting the replacement back instead of the saved object.
patch__exit__keeps_replacement(H, P) ==
  PRet(Ret(patch_target(H, P.target, P.new).H, BoolV(FALSE)), P)

\* __exit__ restoring nothing.
patch__exit__restores_nothing(H, P) == PRet(Ret(H, BoolV(FALSE)), P)

\* patch.__exit__(self, exc_type, exc_value, traceback)
patch__exit__(H, P) ==
  LET r == patch_target(H, P.target, P.old) IN
  IF r.ok THEN PRet(Ret(r.H, BoolV(FALSE)), P) ELSE PRet(r, P)

\* wrapper appending nothing to the caller's arguments.
wrapper_args_unchanged(sig, new) == sig

\* wrapper putting the replacement in front of the caller's arguments.
wrapper_args_prepends(sig, new) == CallSig(<<new>> \o sig.args, sig.kwargs)

\* The arguments wrapper hands to func: args + (new,) and kwargs.
wrapper_args(sig, new) == CallSig(Append(sig.args, new), sig.kwargs)

\* ------------------------------------------- patch_target: specification
FunctionTarget == ModPath \o <<":", "a_function">>
MethodTarget == ModPath \o <<":", "AClass", ".", "a_method">>
MissingTarget == ModPath \o <<":", "AClass", ".", "missing">>
TwoColonTarget == ModPath \o <<":", "AClass", ":", "a_method">>
Targets ==
  {ModPath, OtherPath, NoModPath, FunctionTarget, MethodTarget, MissingTarget,
   ModPath \o <<":", "missing", ".", "a_method">>, TwoColonTarget}

Replacements == {ObjV(ReplacementObj), IntV(0), None_}

InitFixture ==
  /\ kind = FixtureHeap.kind
  /\ instance_dict = FixtureHeap.dict
  /\ calls = FixtureHeap.calls
  /\ spec = FixtureHeap.spec
  /\ iters = FixtureHeap.iters
  /\ sys_modules = FixtureHeap.mods
  /\ ctor = NoCtor
  /\ patches = <<>>
  /\ stack = <<>>
  /\ last = NoStep
  /\ total = EmptyDict
  /\ hist = EmptyDict
  /\ assigned = {}
  /\ steps = 0
  /\ written = EmptyDict
  /\ coros = <<>>
  /\ twin = FixtureHeap

\* old = patch_target(target, replacement)
PatchTarget(target, replacement) ==
  /\ steps < MaxSteps
  /\ steps' = steps + 1
  /\ TargetNeeds(Heap, target) <= Cardinality(Free(Heap))
  /\ LET r == patch_target(Heap, target, replacement) IN
     /\ SetHeap(r.H)
     /\ last' = [Step("patch_target", 0, "", NoSig, r) EXCEPT
                   !.target = target, !.before = Bound(Heap, target),
                   !.given = replacement]
  /\ UNCHANGED <<patches, stack, ctor, total, hist, assigned, written, coros, twin>>

\* patch_target(target, old) with the old the call before returned
PatchTargetBack ==
  /\ last.op = "patch_target"
  /\ last.ok
  /\ PatchTarget(last.target, last.val)

NextTarget ==
  \/ \E target \in Targets, replacement \in Replacements :
       PatchTarget(target, replacement)
  \/ PatchTargetBack

SpecTarget == InitFixture /\ [][NextTarget]_vars

\* ------------------------------------------ specification: resolve_target
\* Targets are resolved in the fixture and in what patch_target makes of
\* it: an attribute or a module replaced by a Mock, by 0 or by None.
\* The paths of tests/test_resolve_target.py: a dotted path to a class, colon
\* paths to a function and a method, a missing last and a missing middle
\* segment, an unloaded module, an unknown module, and an object.
ResolveTargets ==
  {StrV(ModPath \o <<".", "AClass">>), StrV(FunctionTarget), StrV(MethodTarget),
   StrV(MissingTarget), StrV(ModPath \o <<":", "missing", ".", "a_method">>),
   StrV(OtherPath \o <<":", "a_function">>), StrV(NoModPath), ObjV(AClassObj)}

\* obj = resolve_target(target)
ResolveTarget(target) ==
  /\ ResolveNeeds(Heap, target) <= Cardinality(Free(Heap))
  /\ LET r == resolve_target(Heap, target) IN
     /\ SetHeap(r.H)
     /\ last' = [Step("resolve_target", 0, "", NoSig, r) EXCEPT
                   !.given = target]
  /\ UNCHANGED <<patches, stack, ctor, total, hist, assigned, steps, written, coros, twin>>

NextResolve ==
  \/ \E target \in {ModPath, FunctionTarget, MethodTarget},
        replacement \in Replacements :
       PatchTarget(target, replacement)
  \/ \E target \in ResolveTargets : ResolveTarget(target)

SpecResolve == InitFixture /\ [][NextResolve]_vars

\* ---------------------------------------------------- patch: specification
KwNone == [spec |-> SpecNone, side_effect |-> None_, return_value |-> None_]
Kw42 == [spec |-> SpecNone, side_effect |-> None_, return_value |-> IntV(42)]

\* patch(target, new, **kwargs) as the tests write it, and with a falsy new.
PatchArgs ==
  {<<FunctionTarget, IntV(0), KwNone>>,
   <<MethodTarget, ObjV(ReplacementObj), KwNone>>,
   <<ModPath, None_, Kw42>>,
   <<MissingTarget, None_, KwNone>>}

\* The arguments a caller gives a decorated function.
WrapperSigs == {CallSig(<<IntV(1), IntV(2)>>, {<<"a", IntV(3)>>})}

\* A with-statement or wrapper call in progress: the patch instance (p names
\* it in patches, 0 for the instance local to a wrapper call, kept in P),
\* what the target was bound to before, the object __enter__ returned, and
\* for a wrapper call the arguments it got and those it handed to func.
Frame(form, p, P, before, new, sig, funcSig) ==
  [form |-> form, p |-> p, P |-> P, before |-> before, new |-> new,
   sig |-> sig, funcSig |-> funcSig]

Top == stack[Len(stack)]
Pop == SubSeq(stack, 1, Len(stack) - 1)
Active(p) == \E i \in 1..Len(stack) : stack[i].p = p

PatchStep(op, form, P, before, raised, r) ==
  [Step(op, 0, "", NoSig, r) EXCEPT
     !.target = P.target, !.before = before, !.given = P.given,
     !.form = form, !.body_raised = raised]

\* p = patch(target, new, **kwargs)
PatchInit(target, new, kwargs) ==
  /\ Len(patches) < MaxPatch
  /\ patches' = Append(patches, patch__init__(target, new, kwargs))
  /\ last' = Step("patch", Len(patches) + 1, "", NoSig, Ret(Heap, None_))
  /\ UNCHANGED <<kind, instance_dict, calls, spec, iters, sys_modules, stack,
                 ctor, total, hist, assigned, steps, written, coros, twin>>

\* What follows __enter__ in a with-statement: the body is entered when
\* __enter__ returned, and the error propagates when it raised.
Entered(form, p, r, before, sig) ==
  /\ SetHeap(r.H)
  /\ stack' = IF r.ok
              THEN Append(stack, Frame(form, p, r.P, before, r.val, sig,
                                       IF form = "decorator"
                                       THEN wrapper_args(sig, r.val) ELSE sig))
              ELSE stack
  /\ last' = PatchStep("enter", form, r.P, before, FALSE, r)

\* What follows __exit__: the with-statement is left.
Exited(form, r, before, raised) ==
  /\ SetHeap(r.H)
  /\ stack' = Pop
  /\ last' = PatchStep("exit", form, r.P, before, raised, r)

\* The new fields of instance p after one of its methods ran.
Updated(p, P) == [patches EXCEPT ![p] = P]

\* with p as new:    (an instance that is active is not entered again)
WithEnter(p) ==
  /\ ~Active(p)
  /\ Len(stack) < MaxDepth
  /\ EnterNeeds(Heap, patches[p]) <= Cardinality(Free(Heap))
  /\ Entered("with", p, patch__enter__(Heap, patches[p]),
             Bound(Heap, patches[p].target), NoSig)
  /\ patches' = Updated(p, patch__enter__(Heap, patches[p]).P)
  /\ UNCHANGED <<ctor, total, hist, assigned, steps, written, coros, twin>>

\* the body of the innermost with-statement ends, normally or by raising
WithExit(raised) ==
  /\ stack # <<>>
  /\ Top.form = "with"
  /\ Exited("with", patch__exit__(Heap, patches[Top.p]), Top.before, raised)
  /\ patches' = Updated(Top.p, patch__exit__(Heap, patches[Top.p]).P)
  /\ UNCHANGED <<ctor, total, hist, assigned, steps, written, coros, twin>>

\* The instance wrapper makes: patch(self.target, self.new, **self.kwargs)
WrapperPatch(d) ==
  patch__init__(patches[d].target, patches[d].new, patches[d].kwargs)

\* wrapper(*args, **kwargs) of d(func): a new patch from d's fields is
\* entered and func is called with args + (new,)
WrapperCall(d, sig) ==
  /\ Len(stack) < MaxDepth
  /\ EnterNeeds(Heap, WrapperPatch(d)) <= Cardinality(Free(Heap))
  /\ Entered("decorator", 0, patch__enter__(Heap, WrapperPatch(d)),
             Bound(Heap, patches[d].target), sig)
  /\ UNCHANGED <<patches, ctor, total, hist, assigned, steps, written, coros, twin>>

\* func returns or raises inside the innermost wrapper call
WrapperReturn(raised) ==
  /\ stack # <<>>
  /\ Top.form = "decorator"
  /\ Exited("decorator", patch__exit__(Heap, Top.P), Top.before, raised)
  /\ UNCHANGED <<patches, ctor, total, hist, assigned, steps, written, coros, twin>>

NextPatch ==
  \/ \E a \in PatchArgs : PatchInit(a[1], a[2], a[3])
  \/ \E p \in 1..Len(patches) : WithEnter(p)
  \/ \E raised \in BOOLEAN : WithExit(raised)
  \/ \E d \in 1..Len(patches), sig \in WrapperSigs : WrapperCall(d, sig)
  \/ \E raised \in BOOLEAN : WrapperReturn(raised)

SpecPatch == InitFixture /\ [][NextPatch]_vars

\* --------------------------------------- specification: stacked decorators
\* @patch(outer) @patch(inner) def func: patches[1] decorates the wrapper
\* that patches[2] made of func.  A call enters the outer wrapper, whose
\* with-body calls the inner wrapper with the arguments it built; the inner
\* with-body calls func, which returns or raises.  An exception leaves each
\* with-statement through __exit__, which returns False.
InitStacked ==
  \E targets \in {<<FunctionTarget, MethodTarget>>, <<ModPath, FunctionTarget>>,
                  <<FunctionTarget, ModPath>>, <<MethodTarget, MethodTarget>>,
                  <<FunctionTarget, MissingTarget>>},
     a \in {ObjV(ReplacementObj), IntV(7), None_},
     b \in {ObjV(ReplacementObj), IntV(8), None_} :
    /\ kind = FixtureHeap.kind
    /\ instance_dict = FixtureHeap.dict
    /\ calls = FixtureHeap.calls
    /\ spec = FixtureHeap.spec
    /\ iters = FixtureHeap.iters
    /\ sys_modules = FixtureHeap.mods
    /\ ctor = NoCtor
    /\ patches = <<patch__init__(targets[1], a, KwNone),
                   patch__init__(targets[2], b, Kw42)>>
    /\ stack = <<>>
    /\ last = NoStep
    /\ total = EmptyDict
    /\ hist = EmptyDict
    /\ assigned = {}
    /\ steps = 0
    /\ written = EmptyDict
    /\ coros = <<>>
    /\ twin = FixtureHeap

\* The exception, if any, that is on its way out of the outer with-body:
\* func raised, or the inner __enter__ did.
Propagating ==
  \/ last.op = "exit" /\ last.body_raised
  \/ last.op = "enter" /\ ~last.ok

NextStacked ==
  \/ \E sig \in WrapperSigs : stack = <<>> /\ WrapperCall(1, sig)
  \/ Len(stack) = 1 /\ last.op = "enter" /\ last.ok /\ WrapperCall(2, Top.funcSig)
  \/ \E raised \in BOOLEAN : Len(stack) = 2 /\ WrapperReturn(raised)
  \/ Len(stack) = 1 /\ ~(last.op = "enter" /\ last.ok) /\ WrapperReturn(Propagating)

SpecStacked == InitStacked /\ [][NextStacked]_vars

\* ------------------------------------- specification: overlapping patches
\* Two patch instances of one target whose __enter__ and __exit__ are called
\* directly, in any order.  stack keeps every activation in activation
\* order; steps is the clock, and an activation records when it was opened
\* and when it was closed (0 while it is active).
MaxActivations == 2

Activation(p, P, before, new, opened) ==
  [p |-> p, P |-> P, before |-> before, new |-> new, opened |-> opened,
   closed |-> 0]

Open(p) == \E i \in 1..Len(stack) : stack[i].p = p /\ stack[i].closed = 0
OpenAt(p) == CHOOSE i \in 1..Len(stack) : stack[i].p = p /\ stack[i].closed = 0

InitOverlap ==
  \E target \in {ModPath, FunctionTarget, MethodTarget},
     a \in {ObjV(ReplacementObj), IntV(7), None_},
     b \in {ObjV(ReplacementObj), IntV(8), None_} :
    /\ kind = FixtureHeap.kind
    /\ instance_dict = FixtureHeap.dict
    /\ calls = FixtureHeap.calls
    /\ spec = FixtureHeap.spec
    /\ iters = FixtureHeap.iters
    /\ sys_modules = FixtureHeap.mods
    /\ ctor = NoCtor
    /\ patches = <<patch__init__(target, a, KwNone),
                   patch__init__(target, b, Kw42)>>
    /\ stack = <<>>
    /\ last = NoStep
    /\ total = EmptyDict
    /\ hist = EmptyDict
    /\ assigned = {}
    /\ steps = 0
    /\ written = EmptyDict
    /\ coros = <<>>
    /\ twin = FixtureHeap

Opened(p, r, before) ==
  /\ SetHeap(r.H)
  /\ patches' = Updated(p, r.P)
  /\ stack' = IF r.ok
              THEN Append(stack, Activation(p, r.P, before, r.val, steps + 1))
              ELSE stack
  /\ last' = PatchStep("enter", "direct", r.P, before, FALSE, r)

Closed(p, i, r, before) ==
  /\ SetHeap(r.H)
  /\ patches' = Updated(p, r.P)
  /\ stack' = [stack EXCEPT ![i].closed = steps + 1]
  /\ last' = PatchStep("exit", "direct", r.P, before, FALSE, r)

\* p.__enter__()
Enter(p) ==
  /\ ~Open(p)
  /\ Len(stack) < MaxActivations
  /\ EnterNeeds(Heap, patches[p]) <= Cardinality(Free(Heap))
  /\ Opened(p, patch__enter__(Heap, patches[p]), Bound(Heap, patches[p].target))
  /\ steps' = steps + 1
  /\ UNCHANGED <<ctor, total, hist, assigned, written, coros, twin>>

\* p.__exit__(None, None, None)
Exit(p) ==
  /\ Open(p)
  /\ Closed(p, OpenAt(p), patch__exit__(Heap, patches[p]), stack[OpenAt(p)].before)
  /\ steps' = steps + 1
  /\ UNCHANGED <<ctor, total, hist, assigned, written, coros, twin>>

NextOverlap ==
  \/ \E p \in 1..Len(patches) : Enter(p)
  \/ \E p \in 1..Len(patches) : Exit(p)

SpecOverlap == InitOverlap /\ [][NextOverlap]_vars

\* ------------------------------------------------- patch_target: properties
\* C2: round trip.  When old = patch_target(path, new) succeeded and the
\* next call is patch_target(path, old), that call succeeds and returns new,
\* and the path is bound to old again, which is the object the path was
\* bound to before the first call whenever it was bound at all.
C2_RoundTrip ==
  [][(/\ last.op = "patch_target"
      /\ last.ok
      /\ last'.op = "patch_target"
      /\ last'.target = last.target
      /\ last'.given = last.val)
     => /\ last'.ok
        /\ last'.val = last.given
        /\ Bound(Heap', last.target) = last.val
        /\ last.before # Absent => last.val = last.before]_vars

C2_Witness ==
  /\ last.op = "patch_target"
  /\ last.ok
  /\ steps = 2
  /\ last.target = MethodTarget
  /\ last.given = ObjV(AMethodObj)
  /\ last.val = ObjV(ReplacementObj)
  /\ Bound(Heap, MethodTarget) = ObjV(AMethodObj)

\* The chain of a colon target has a segment its parent does not have: the
\* module is found, the segments before it resolve, and getattr of it fails.
MissingSegment(H, target) ==
  /\ target.tag = "str"
  /\ \E i \in 1..Len(target.items) : target.items[i] = ":"
  /\ LET mod == import_module(H, BeforeColon(target.items))
         parts == Split(AfterColon(target.items), ".")
     IN /\ mod.ok
        /\ \E k \in 1..Len(parts) :
             LET parent == Walk(mod, SubSeq(parts, 1, k - 1)) IN
             /\ parent.ok
             /\ ~PyHasAttr(parent.H, parent.val, NameOf(parts[k]))

\* C26: resolve_target of a module:chain target fails with AttributeError
\* when a segment of the chain is not an attribute of its parent, and a
\* resolution, failed or not, leaves every module registered and every
\* attribute bound before it bound to the same object.
C26_ResolveMissingSegment ==
  /\ []( (last.op = "resolve_target" /\ MissingSegment(Heap, last.given)) =>
           /\ ~last.ok
           /\ last.err = "AttributeError" )
  /\ [][last'.op = "resolve_target" =>
           /\ \A p \in DOMAIN sys_modules :
                p \in DOMAIN sys_modules' /\ sys_modules'[p] = sys_modules[p]
           /\ \A o \in ObjIds :
                kind[o] # "free" =>
                  /\ kind'[o] = kind[o]
                  /\ \A n \in DOMAIN instance_dict[o] :
                       Get(instance_dict'[o], n) = instance_dict[o][n]
           /\ \A o \in DOMAIN calls :
                o \in DOMAIN calls' /\ calls'[o] = calls[o]]_vars

\* The last segment is missing on the class, while a_function stands
\* replaced by a Mock.
C26_Witness ==
  /\ last.op = "resolve_target"
  /\ last.given = StrV(MissingTarget)
  /\ last.err = "AttributeError"
  /\ instance_dict[ModObj]["a_function"] = ObjV(ReplacementObj)
  /\ instance_dict[ModObj]["AClass"] = ObjV(AClassObj)

\* The chain of a module:chain target stops at a segment that its parent,
\* found the way patch_target finds it in H, does not have.
ChainBreaks(H, target) ==
  LET halves == Split(target, ":") IN
  /\ Len(halves) = 2
  /\ LET got == Get(H.mods, halves[1])
         mod == IF got # Absent /\ Truthy(got) THEN Ret(H, got)
                ELSE import_module(H, halves[1])
         parts == Split(halves[2], ".")
     IN /\ mod.ok
        /\ \E k \in 1..Len(parts) :
             LET parent == Walk(mod, SubSeq(parts, 1, k - 1)) IN
             /\ parent.ok
             /\ ~PyHasAttr(parent.H, parent.val, NameOf(parts[k]))

\* C34: patch_target on a module:chain target one of whose segments, the
\* last or one before it, is missing raises AttributeError; the call leaves
\* every attribute of every object and every registered module as it was,
\* and the replacement is bound nowhere it was not bound before.
C34_PatchTargetMissingSegment ==
  [][(steps' = steps + 1 /\ last'.op = "patch_target"
      /\ ChainBreaks(Heap, last'.target)) =>
        /\ ~last'.ok
        /\ last'.err = "AttributeError"
        /\ instance_dict' = instance_dict
        /\ kind' = kind
        /\ \A p \in DOMAIN sys_modules' :
             (p \in DOMAIN sys_modules /\ sys_modules'[p] = sys_modules[p])
             \/ (p \notin DOMAIN sys_modules /\ sys_modules'[p] # last'.given)]_vars

\* The chain broke at its first segment, after the function of the module
\* had been replaced by an earlier call.
C34_Witness ==
  /\ last.op = "patch_target"
  /\ last.target = ModPath \o <<":", "missing", ".", "a_method">>
  /\ last.given = ObjV(ReplacementObj)
  /\ last.err = "AttributeError"
  /\ steps = 2
  /\ instance_dict[ModObj]["a_function"] = IntV(0)
  /\ instance_dict[AClassObj]["a_method"] = ObjV(AMethodObj)

\* -------------------------------------------------------- patch: properties
\* C1: once a patch has exited, in with-statement or decorator form and
\* whether the guarded body returned or raised, __exit__ has succeeded and
\* the target is bound to the object it was bound to just before the patch
\* was activated.
C1_ExitRestoresBinding ==
  last.op = "exit" =>
    /\ last.ok
    /\ last.before # Absent => Bound(Heap, last.target) = last.before

C1_Witness ==
  /\ last.op = "exit"
  /\ last.form = "decorator"
  /\ last.body_raised
  /\ last.target = FunctionTarget
  /\ last.before = ObjV(AFunctionObj)
  /\ Bound(Heap, FunctionTarget) = ObjV(AFunctionObj)

\* C3: when __enter__ returns, the object it returns is the one bound at the
\* target, and when a replacement was given to patch() it is that
\* replacement.
C3_EnterReturnsSuppliedReplacement ==
  (last.op = "enter" /\ last.ok) =>
    /\ Bound(Heap, last.target) = last.val
    /\ last.given # None_ => last.val = last.given

\* C4: in every wrapper call in progress the patch has been activated and
\* func was handed the caller's positional arguments followed by the
\* installed replacement, with the keyword arguments as given; and while the
\* wrapped call is the innermost guarded body the target is bound to that
\* replacement.
C4_WrapperPassesReplacementLast ==
  /\ \A i \in 1..Len(stack) :
       stack[i].form = "decorator" =>
         /\ stack[i].P.old # Absent
         /\ stack[i].P.new = stack[i].new
         /\ stack[i].funcSig.args = Append(stack[i].sig.args, stack[i].new)
         /\ stack[i].funcSig.kwargs = stack[i].sig.kwargs
  /\ (stack # <<>> /\ Top.form = "decorator") =>
       Bound(Heap, Top.P.target) = Top.new

C4_Witness ==
  /\ Len(stack) = 1
  /\ Top.form = "decorator"
  /\ Top.sig.args = <<IntV(1), IntV(2)>>
  /\ Top.new = ObjV(ReplacementObj)
  /\ Top.funcSig.args = <<IntV(1), IntV(2), ObjV(ReplacementObj)>>
  /\ last.op = "exit"
  /\ Bound(Heap, MethodTarget) = ObjV(ReplacementObj)

\* C31 as stated: an activation of a patch instance that was given no
\* replacement makes a new Mock: the object it returns and installs did not
\* exist before the activation, the first time and every time after.
C31_EachActivationMakesANewMock ==
  [][\A p \in 1..Len(patches) :
       (WithEnter(p) /\ patches[p].given = None_ /\ last'.ok) =>
         /\ last'.val.tag = "obj"
         /\ kind[last'.val.n] = "free"
         /\ kind'[last'.val.n] = "Mock"]_vars

\* C31: an instance constructed without a replacement makes its Mock in the
\* first activation and keeps it in self.new: that activation returns an
\* object that did not exist before, and every later activation of the
\* instance returns and installs that Mock, which existed before it.
C31_ActivationReusesItsMock ==
  [][\A p \in 1..Len(patches) :
       (WithEnter(p) /\ patches[p].given = None_) =>
         /\ patches'[p].new.tag = "obj"
         /\ kind'[patches'[p].new.n] = "Mock"
         /\ last'.ok => last'.val = patches'[p].new
         /\ IF patches[p].new = None_
            THEN kind[patches'[p].new.n] = "free"
            ELSE /\ patches'[p].new = patches[p].new
                 /\ kind[patches[p].new.n] = "Mock"]_vars

\* The instance is active with the Mock it made, which is bound at the
\* target; the same state follows its first and each later activation.
C31_Witness ==
  /\ last.op = "enter"
  /\ last.form = "with"
  /\ last.ok
  /\ last.given = None_
  /\ Len(stack) = 1
  /\ patches[Top.p].new = last.val
  /\ kind[last.val.n] = "Mock"
  /\ Bound(Heap, ModPath) = last.val

\* C32 as stated: self._old exists exactly while the instance is active.
C32_PreviousValueOnlyWhileActive ==
  \A p \in 1..Len(patches) : patches[p].old # Absent <=> Active(p)

\* Activations i and j of two instances ran with no third activation open
\* at any time since i was opened.
Undisturbed(i, j) ==
  /\ stack[i].p # stack[j].p
  /\ stack[i].P.target = stack[j].P.target
  /\ stack[i].opened < stack[j].opened
  /\ \A k \in 1..Len(stack) \ {i, j} :
       stack[k].closed # 0 /\ stack[k].closed < stack[i].opened

\* C33: P1 activated, P2 activated, P1 deactivated, P2 deactivated on one
\* target: once the second deactivation has run the target is bound to
\* P1's replacement, and so not to the object it was bound to before P1.
C33_OverlapLosesTheOriginal ==
  \A i, j \in 1..Len(stack) :
    ( /\ Undisturbed(i, j)
      /\ stack[j].opened < stack[i].closed
      /\ stack[i].closed < stack[j].closed
      /\ stack[j].closed = steps ) =>
        /\ last.op = "exit" /\ last.ok
        /\ Bound(Heap, stack[i].P.target) = stack[i].new
        /\ stack[i].new # stack[i].before =>
             Bound(Heap, stack[i].P.target) # stack[i].before

C33_Witness ==
  /\ Len(stack) = 2
  /\ Undisturbed(1, 2)
  /\ stack[1].closed = 3
  /\ stack[2].closed = 4
  /\ steps = 4
  /\ stack[1].before = ObjV(AFunctionObj)
  /\ stack[1].new = IntV(7)
  /\ stack[2].new = IntV(8)
  /\ Bound(Heap, FunctionTarget) = IntV(7)

\* C35: P1 activated, P2 activated on one target and deactivated in reverse
\* order: once P2 is deactivated the target is bound to P1's replacement,
\* and once P1 is deactivated after it the target is bound to the object it
\* was bound to before P1 was activated.
C35_NestedPatchesRestoreByLevel ==
  \A i, j \in 1..Len(stack) :
    Undisturbed(i, j) =>
      /\ (stack[j].closed = steps /\ stack[i].closed = 0) =>
           /\ last.op = "exit" /\ last.ok
           /\ Bound(Heap, stack[i].P.target) = stack[i].new
      /\ (stack[j].closed # 0 /\ stack[j].closed < stack[i].closed
          /\ stack[i].closed = steps) =>
           /\ last.op = "exit" /\ last.ok
           /\ Bound(Heap, stack[i].P.target) = stack[i].before

C35_Witness ==
  /\ Len(stack) = 2
  /\ Undisturbed(1, 2)
  /\ stack[2].closed = 3
  /\ stack[1].closed = 4
  /\ steps = 4
  /\ stack[1].before = ObjV(AMethodObj)
  /\ stack[1].new.tag = "obj" /\ kind[stack[1].new.n] = "Mock"
  /\ stack[2].before = stack[1].new
  /\ stack[2].new = IntV(8)
  /\ Bound(Heap, MethodTarget) = ObjV(AMethodObj)

\* C40: with two patch decorators on one function, while the function runs
\* the outer patch was activated before the inner one and the function's
\* positional arguments are the caller's followed by the outer and then the
\* inner replacement, its keyword arguments the caller's; the inner patch is
\* deactivated before the outer one; and once the outer wrapper is left, by
\* return or by an exception, both targets are bound to what they were bound
\* to before the call.
C40_StackedDecorators ==
  /\ [](Len(stack) = 2 =>
          /\ stack[1].P.target = patches[1].target
          /\ stack[2].P.target = patches[2].target
          /\ stack[2].sig = stack[1].funcSig
          /\ Top.funcSig.args
               = stack[1].sig.args \o <<stack[1].new, stack[2].new>>
          /\ Top.funcSig.kwargs = stack[1].sig.kwargs
          /\ Bound(Heap, patches[2].target) = stack[2].new)
  /\ [][Len(stack') < Len(stack) =>
          /\ stack' = Pop
          /\ last'.op = "exit"
          /\ last'.ok
          /\ last'.target = patches[Len(stack)].target]_vars
  /\ []((stack = <<>> /\ last.op \in {"enter", "exit"}) =>
          \A p \in 1..Len(patches) :
            Bound(Heap, patches[p].target)
              = Bound(FixtureHeap, patches[p].target))

\* func is running with (1, 2, 7, <the Mock>, a=3): 7 replaces the function
\* for the outer decorator, the Mock the method for the inner one.
C40_Witness ==
  /\ Len(stack) = 2
  /\ last.op = "enter"
  /\ last.target = MethodTarget
  /\ stack[1].sig.args = <<IntV(1), IntV(2)>>
  /\ Top.funcSig.args = <<IntV(1), IntV(2), IntV(7), ObjV(ReplacementObj)>>
  /\ Top.funcSig.kwargs = {<<"a", IntV(3)>>}
  /\ Bound(Heap, FunctionTarget) = IntV(7)
  /\ Bound(Heap, MethodTarget) = ObjV(ReplacementObj)

====
